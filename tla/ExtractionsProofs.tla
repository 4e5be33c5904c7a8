-------------------------- MODULE ExtractionsProofs --------------------------
(***************************************************************************)
(* Theorems about Extractions: the extraction consumer proposes once, and  *)
(* people's decisions stand.  The two halves share the proposals and       *)
(* little else, so each has an inductive invariant of its own, Feed and    *)
(* Deciding, which make IInv together.                                     *)
(***************************************************************************)
EXTENDS Extractions, FiniteSetTheorems, TLAPS

-----------------------------------------------------------------------------
(* The consumer. *)

\* The part of the state that only the consumer changes, with its types.
Feed ==
  /\ extracted \subseteq Interactions
  /\ job \in [Handlers -> [at : {"idle", "calling", "stored"}, of : Interactions]]
  /\ FeedSound

-----------------------------------------------------------------------------
\* Nothing is proposed and nobody works in an initial state.
LEMMA FeedInit == Init => Feed
BY DEF Init, Feed, FeedSound, Has

\* Reading an interaction: company is noticed, and a marked one is not asked about.
LEMMA ReadKeepsFeed ==
  ASSUME Feed, NEW h \in Handlers, NEW i \in Interactions, Read(h, i)
  PROVE  Feed'
<1>1. /\ extracted' = extracted /\ stores' = stores
      /\ overlapped' = IF \E o \in Handlers : Has(o, i) THEN overlapped \cup {i} ELSE overlapped
      /\ job' = [job EXCEPT ![h] = [at |-> IF i \in extracted THEN "stored" ELSE "calling", of |-> i]]
      /\ job[h].at = "idle"
  BY DEF Read
<1>2. job' \in [Handlers -> [at : {"idle", "calling", "stored"}, of : Interactions]]
  BY <1>1 DEF Feed
<1>3. \A j \in Interactions \ overlapped' : stores'[j] <= (IF j \in extracted' THEN 1 ELSE 0)
  BY <1>1 DEF Feed, FeedSound
<1>4. ASSUME NEW o \in Handlers, job'[o].at = "calling", job'[o].of \in extracted'
      PROVE  job'[o].of \in overlapped'
  <2>1. CASE o = h
    BY <1>1, <1>4, <2>1 DEF Feed
  <2>2. CASE o # h
    BY <1>1, <1>4, <2>2 DEF Feed, FeedSound
  <2> QED BY <2>1, <2>2
<1>5. ASSUME NEW o \in Handlers, NEW p \in Handlers, o # p,
             job'[o].at # "idle", Has(p, job[o].of)'
      PROVE  job'[o].of \in overlapped'
  <2>1. CASE o = h
    <3>1. job'[o].of = i /\ job'[p] = job[p]
      BY <1>1, <1>5, <2>1 DEF Feed
    <3>2. Has(p, i)
      BY <1>5, <3>1 DEF Has
    <3> QED BY <1>1, <3>1, <3>2
  <2>2. CASE p = h
    <3>1. job'[p].of = i /\ job'[o] = job[o] /\ job'[o].of = i
      BY <1>1, <1>5, <2>2 DEF Feed, Has
    <3>2. Has(o, i)
      BY <1>5, <3>1 DEF Has
    <3> QED BY <1>1, <3>1, <3>2
  <2>3. CASE o # h /\ p # h
    <3>1. job'[o] = job[o] /\ job'[p] = job[p]
      BY <1>1, <2>3 DEF Feed
    <3>2. job[o].of \in overlapped
      BY <1>5, <3>1 DEF Feed, FeedSound, Has
    <3> QED BY <1>1, <3>1, <3>2
  <2> QED BY <2>1, <2>2, <2>3
<1> QED BY <1>1, <1>2, <1>3, <1>4, <1>5 DEF Feed, FeedSound, Has

\* Storing proposals: without company nobody has stored any before.
LEMMA StoreKeepsFeed ==
  ASSUME Feed, NEW h \in Handlers, Store(h)
  PROVE  Feed'
<1> DEFINE i == job[h].of
<1>1. /\ extracted' = extracted \cup {i} /\ overlapped' = overlapped
      /\ stores' = stores \/ stores' = [stores EXCEPT ![i] = @ + 1]
      /\ job' = [job EXCEPT ![h].at = "stored"]
      /\ job[h].at = "calling" /\ i \in Interactions
  BY DEF Store, Feed
<1>2. job' \in [Handlers -> [at : {"idle", "calling", "stored"}, of : Interactions]]
  BY <1>1 DEF Feed
<1>3. stores' \in [Interactions -> Nat]
  BY <1>1 DEF Feed, FeedSound
<1>4. ASSUME NEW j \in Interactions \ overlapped'
      PROVE  stores'[j] <= (IF j \in extracted' THEN 1 ELSE 0)
  <2>1. CASE j = i
    <3>1. i \notin extracted
      BY <1>1, <1>4, <2>1 DEF Feed, FeedSound
    <3>2. stores[i] = 0
      BY <1>1, <1>4, <2>1, <3>1 DEF Feed, FeedSound
    <3> QED BY <1>1, <2>1, <3>2 DEF Feed, FeedSound
  <2>2. CASE j # i
    BY <1>1, <1>4, <2>2 DEF Feed, FeedSound
  <2> QED BY <2>1, <2>2
<1>5. \A o \in Handlers : job'[o].of = job[o].of /\ (o # h => job'[o] = job[o])
  BY <1>1 DEF Feed
<1>6. ASSUME NEW o \in Handlers, job'[o].at = "calling", job'[o].of \in extracted'
      PROVE  job'[o].of \in overlapped'
  <2>1. o # h /\ job'[o] = job[o]
    BY <1>1, <1>5, <1>6 DEF Feed
  <2>2. CASE job[o].of = i
    BY <1>1, <1>6, <2>1, <2>2 DEF Feed, FeedSound, Has
  <2>3. CASE job[o].of # i
    BY <1>1, <1>6, <2>1, <2>3 DEF Feed, FeedSound
  <2> QED BY <2>2, <2>3
<1>7. ASSUME NEW o \in Handlers, NEW p \in Handlers, o # p,
             job'[o].at # "idle", Has(p, job[o].of)'
      PROVE  job'[o].of \in overlapped'
  <2>1. job[o].at # "idle" /\ Has(p, job[o].of)
    BY <1>1, <1>5, <1>7 DEF Has
  <2> QED BY <1>1, <1>5, <1>7, <2>1 DEF Feed, FeedSound
<1> QED BY <1>1, <1>2, <1>3, <1>4, <1>6, <1>7 DEF Feed, FeedSound, Has

\* A handler that gives up, acknowledges or dies leaves the table alone.
LEMMA LeavingKeepsFeed ==
  ASSUME Feed, NEW h \in Handlers, GiveUp(h) \/ Acknowledge(h) \/ Crash(h)
  PROVE  Feed'
<1>1. /\ extracted' = extracted /\ overlapped' = overlapped /\ stores' = stores
      /\ \E where \in {"idle", "stored"} : job' = [job EXCEPT ![h].at = where]
      /\ job[h].at # "idle"
  BY DEF GiveUp, Acknowledge, Crash
<1>2. job' \in [Handlers -> [at : {"idle", "calling", "stored"}, of : Interactions]]
  BY <1>1 DEF Feed
<1>3. \A o \in Handlers : /\ job'[o].of = job[o].of
                          /\ job'[o].at # "idle" => job[o].at # "idle"
                          /\ job'[o].at = "calling" => job[o].at = "calling"
  BY <1>1 DEF Feed
<1> QED BY <1>1, <1>2, <1>3 DEF Feed, FeedSound, Has

\* Decisions and the deal routes do not touch the consumer's part.
LEMMA OthersKeepFeed ==
  ASSUME Feed, UNCHANGED feedVars
  PROVE  Feed'
BY DEF Feed, FeedSound, Has, feedVars

\* Each step keeps the consumer's invariant.
LEMMA FeedStep == Feed /\ [Next]_vars => Feed'
<1> SUFFICES ASSUME Feed, [Next]_vars PROVE Feed'
  OBVIOUS
<1>1. ASSUME NEW h \in Handlers, HandlerNext(h) PROVE Feed'
  BY <1>1, ReadKeepsFeed, StoreKeepsFeed, LeavingKeepsFeed DEF HandlerNext
<1>2. ASSUME NEW x \in Rows, NEW to \in {"accepted", "rejected", "done"}, Decide(x, to)
      PROVE  Feed'
  BY <1>2, OthersKeepFeed DEF Decide
<1>3. ASSUME NEW u \in Users, DecisionNext(u) PROVE Feed'
  BY <1>3, OthersKeepFeed
     DEF DecisionNext, AcceptMention, FindCompany, AddCompany, FindDeal, AcceptCommit, Abandon
<1>4. ASSUME NEW u \in Users, DealNext(u) PROVE Feed'
  BY <1>4, OthersKeepFeed DEF DealNext, CreateDeal, UpdateDeal, JoinTeam, Edit
<1>5. CASE UNCHANGED vars
  BY <1>5, OthersKeepFeed DEF vars, feedVars
<1> QED BY <1>1, <1>2, <1>3, <1>4, <1>5 DEF Next

\* The consumer's invariant holds in every reachable state.
THEOREM FeedInvariant == Spec => []FeedSound
<1>1. Spec => []Feed
  BY FeedInit, FeedStep, PTL DEF Spec
<1>2. Feed => FeedSound
  BY DEF Feed
<1> QED BY <1>1, <1>2, PTL

\* extract_interaction is idempotent: however often an event is delivered, the
\* proposals of an interaction stem from one transaction, unless two handlers
\* had it at the same time.
THEOREM ExtractionIsIdempotent == Spec => []ProposedOnce
<1>1. FeedSound => ProposedOnce
  BY DEF FeedSound, ProposedOnce
<1> QED BY <1>1, FeedInvariant, PTL
-----------------------------------------------------------------------------
(* Decisions. *)

\* The part of the state that decisions are about, with its types.
DecisionTypes ==
  /\ readers \in [Interactions -> SUBSET Users]
  /\ link    \in [Interactions -> 0 .. MaxDeals]
  /\ proposals \in 0 .. MaxProposals
  /\ source  \in [Rows -> Interactions]
  /\ about   \in [Rows -> Names \cup {Other}]
  /\ verdict \in [Rows -> {"none", "proposed", "accepted", "rejected", "done"}]
  /\ companies \in {0} \cup Firms
  /\ named   \in [Firms -> Names]
  /\ onFile  \in [Names -> {0} \cup Firms]
  /\ deals   \in 0 .. MaxDeals
  /\ company \in [Deals -> {0} \cup Firms]
  /\ stage   \in [Deals -> {"sourced", "active", "closed"}]
  /\ team    \in [Deals -> SUBSET Users]
  /\ restricted \subseteq Deals
  /\ tx      \in [Users -> [at : Places, row : {0} \cup Rows, company : {0} \cup Firms,
                            deal : 0 .. MaxDeals, claims : BOOLEAN]]

Deciding ==
  /\ DecisionTypes
  /\ RowsSound
  /\ CompaniesCounted
  /\ DecisionsExclusive
  /\ DecidingAlone
  /\ AcceptedHasDeal

LEMMA Bounds == MaxProposals \in Nat /\ MaxDeals \in Nat /\ Other \notin Names
BY BoundsAssumption, NamesAssumption

LEMMA DecidingInit == Init => Deciding
<1> SUFFICES ASSUME Init PROVE Deciding
  OBVIOUS
<1> USE Bounds
<1>1. proposals = 0 /\ deals = 0 /\ companies \in {0, 1}
  BY DEF Init
<1>2. DecisionTypes
  <2>1. /\ readers \in [Interactions -> SUBSET Users]
        /\ link    \in [Interactions -> 0 .. MaxDeals]
        /\ source  \in [Rows -> Interactions]
    BY DEF Init
  <2>2. /\ companies \in {0} \cup Firms
        /\ named   \in [Firms -> Names]
        /\ onFile  \in [Names -> {0} \cup Firms]
        /\ company \in [Deals -> {0} \cup Firms]
    BY DEF Init, Firms
  <2>3. /\ about   \in [Rows -> Names \cup {Other}]
        /\ verdict \in [Rows -> {"none", "proposed", "accepted", "rejected", "done"}]
        /\ stage   \in [Deals -> {"sourced", "active", "closed"}]
        /\ team    \in [Deals -> SUBSET Users]
        /\ restricted \subseteq Deals
    BY DEF Init
  <2>4. tx \in [Users -> [at : Places, row : {0} \cup Rows, company : {0} \cup Firms,
                         deal : 0 .. MaxDeals, claims : BOOLEAN]]
    BY DEF Init, Idle, Places
  <2> QED BY <1>1, <2>1, <2>2, <2>3, <2>4 DEF DecisionTypes
<1>3. RowsSound
  <2>1. ASSUME NEW k \in Names, onFile[k] # 0
        PROVE  onFile[k] = companies /\ companies = 1 /\ named[1] = k
    BY <2>1, <1>1 DEF Init, Firms
  <2>2. \A x \in Rows : verdict[x] = "none"
    BY DEF Init
  <2> QED BY <2>1, <2>2, <1>1 DEF RowsSound, Init
<1>4. CompaniesCounted
  <2>1. Decided = {}
    BY <1>1 DEF Decided
  <2> QED BY <2>1, <1>1, FS_EmptySet DEF CompaniesCounted
<1>5. DecisionsExclusive
  BY DEF Init, Idle, DecisionsExclusive
<1>6. DecidingAlone
  BY <1>1 DEF Init, Idle, DecidingAlone, Called
<1>7. AcceptedHasDeal
  BY <1>1 DEF AcceptedHasDeal
<1> QED BY <1>2, <1>3, <1>4, <1>5, <1>6, <1>7 DEF Deciding

\* A step that touches none of it.
LEMMA OthersKeepDeciding ==
  ASSUME Deciding, UNCHANGED <<fileVars, rowVars, verdict, firmVars, dealVars, tx, raced>>
  PROVE  Deciding'
<1>1. UNCHANGED <<readers, link, blind, proposals, source, about, verdict, companies, named, onFile,
                  deals, company, stage, team, restricted, tx, raced>>
  BY DEF rowVars, fileVars, firmVars, dealVars
<1>2. DecisionTypes' /\ RowsSound' /\ AcceptedHasDeal'
  BY <1>1 DEF Deciding, DecisionTypes, RowsSound, AcceptedHasDeal
<1>3. CompaniesCounted'
  BY <1>1 DEF Deciding, CompaniesCounted, Decided
<1>4. DecisionsExclusive'
  BY <1>1 DEF Deciding, DecisionsExclusive, Subject, Called
<1>5. DecidingAlone'
  BY <1>1 DEF Deciding, DecidingAlone, Subject, Called, InSight, Visible
<1> QED BY <1>2, <1>3, <1>4, <1>5 DEF Deciding

\* Storing proposals adds rows that nobody has decided on.
LEMMA StoreKeepsDeciding ==
  ASSUME Deciding, NEW h \in Handlers, job[h].of \in Interactions, Store(h)
  PROVE  Deciding'
<1> USE Bounds
<1>1. PICK n \in 0 .. MaxProposals - proposals :
        /\ proposals' = proposals + n
        /\ source' = [x \in Rows |-> IF x \in proposals + 1 .. proposals + n THEN job[h].of ELSE source[x]]
        /\ \E what \in [proposals + 1 .. proposals + n -> Names \cup {Other}] :
             about' = [x \in Rows |-> IF x \in proposals + 1 .. proposals + n THEN what[x] ELSE about[x]]
        /\ verdict' = [x \in Rows |-> IF x \in proposals + 1 .. proposals + n THEN "proposed" ELSE verdict[x]]
  BY DEF Store
<1>2. UNCHANGED <<readers, link, blind, companies, named, onFile, deals, company, stage, team, restricted, tx, raced>>
  BY DEF Store, fileVars, firmVars, dealVars
<1>3. proposals \in Nat /\ proposals <= MaxProposals /\ proposals' \in 0 .. MaxProposals
  BY <1>1 DEF Deciding, DecisionTypes
<1>4. \A x \in 1 .. proposals :
        x \in Rows /\ source'[x] = source[x] /\ about'[x] = about[x] /\ verdict'[x] = verdict[x]
  BY <1>1, <1>3 DEF Rows
<1>5. \A x \in 1 .. proposals' : x \in 1 .. proposals \/ verdict'[x] = "proposed"
  BY <1>1, <1>3 DEF Rows
<1>6. 1 .. proposals \subseteq 1 .. proposals'
  BY <1>1, <1>3
<1>7. DecisionTypes'
  BY <1>1, <1>2, <1>3 DEF Deciding, DecisionTypes, Rows
<1>8. RowsSound'
  <2>1. \A x \in Rows : x > proposals' => x > proposals /\ verdict'[x] = verdict[x]
    BY <1>1, <1>3 DEF Rows
  <2> QED BY <2>1, <1>2 DEF Deciding, RowsSound
<1>9. CompaniesCounted'
  <2>1. Decided' = Decided
    BY <1>4, <1>5, <1>6 DEF Decided
  <2> QED BY <2>1, <1>2 DEF Deciding, CompaniesCounted
<1>10. \A u \in Users : tx[u].at # "idle" => tx[u].row \in 1 .. proposals /\ Subject(u)' = Subject(u)
  BY <1>2, <1>4 DEF Deciding, DecisionsExclusive, Subject
<1>11. \A k \in Names : Called(k)' = Called(k)
  BY <1>2 DEF Called
<1>12. DecisionsExclusive'
  BY <1>2, <1>4, <1>6, <1>10, <1>11 DEF Deciding, DecisionsExclusive, Called
<1>13. DecidingAlone'
  BY <1>2, <1>10 DEF Deciding, DecidingAlone, Called, InSight, Visible
<1>14. AcceptedHasDeal'
  BY <1>2, <1>4, <1>5 DEF Deciding, AcceptedHasDeal
<1> QED BY <1>7, <1>8, <1>9, <1>12, <1>13, <1>14 DEF Deciding

\* Some of finitely many proposals: how many, and that others may join them.
LEMMA ProposalCount ==
  ASSUME NEW n \in Nat, NEW D \in SUBSET (1 .. n)
  PROVE  /\ IsFiniteSet(D) /\ Cardinality(D) \in Nat
         /\ D # 1 .. n => Cardinality(D) < n
         /\ \A x \in 1 .. n \ D : Cardinality(D \cup {x}) = Cardinality(D) + 1
<1>1. IsFiniteSet(1 .. n) /\ Cardinality(1 .. n) = n
  BY FS_Interval
<1>2. /\ IsFiniteSet(D) /\ Cardinality(D) <= Cardinality(1 .. n)
      /\ Cardinality(1 .. n) = Cardinality(D) => 1 .. n = D
  BY <1>1, FS_Subset
<1>3. Cardinality(D) \in Nat
  BY <1>2, FS_CardinalityType
<1>4. \A x \in 1 .. n \ D : Cardinality(D \cup {x}) = Cardinality(D) + 1
  BY <1>2, FS_AddElement
<1> QED BY <1>1, <1>2, <1>3, <1>4

\* Writing a status and nothing else: of a row that no decision has locked.
LEMMA DecideKeepsDeciding ==
  ASSUME Deciding, NEW x \in Rows, NEW to \in {"accepted", "rejected", "done"}, Decide(x, to)
  PROVE  Deciding'
<1> USE Bounds
<1>1. /\ UNCHANGED <<readers, link, blind, proposals, source, about, companies, named, onFile, deals, company, stage,
                     team, restricted, tx, raced>>
      /\ verdict' = [verdict EXCEPT ![x] = to]
      /\ <<verdict[x], to>> \in Moves
      /\ to = "accepted" => about[x] = Other
      /\ \A u \in Users : tx[u].at # "idle" => tx[u].row # x
  BY DEF Decide, Locked, rowVars, fileVars, firmVars, dealVars
<1>2. verdict[x] \in {"proposed", "accepted"} /\ (to = "done" => verdict[x] = "accepted")
  BY <1>1 DEF Moves
<1>3. x \in 1 .. proposals /\ proposals \in Nat
  BY <1>2 DEF Deciding, DecisionTypes, RowsSound, Rows
<1>4. \A y \in Rows : verdict'[y] = IF y = x THEN to ELSE verdict[y]
  BY <1>1 DEF Deciding, DecisionTypes
<1>5. \A y \in 1 .. proposals : y \in Rows
  BY DEF Deciding, DecisionTypes, Rows
<1>6. DecisionTypes'
  BY <1>1 DEF Deciding, DecisionTypes
<1>7. RowsSound'
  BY <1>1, <1>3, <1>4 DEF Deciding, RowsSound, Rows
<1>8. CompaniesCounted'
  <2>1. Decided \in SUBSET Decided'
    BY <1>1, <1>4, <1>5 DEF Decided
  <2>2. Cardinality(Decided) <= Cardinality(Decided') /\ Cardinality(Decided') \in Nat
    <3>1. Decided' \in SUBSET (1 .. proposals)
      BY <1>1 DEF Decided
    <3>2. IsFiniteSet(Decided') /\ Cardinality(Decided') \in Nat
      BY <3>1, <1>3, ProposalCount
    <3> QED BY <2>1, <3>2, FS_Subset
  <2>3. Cardinality(Decided) \in Nat
    BY <1>3, ProposalCount DEF Decided
  <2> QED BY <1>1, <2>2, <2>3 DEF Deciding, DecisionTypes, CompaniesCounted, Firms
<1>9. \A u \in Users : tx[u].at # "idle" => verdict'[tx[u].row] = verdict[tx[u].row]
  BY <1>1, <1>4, <1>5 DEF Deciding, DecisionsExclusive
<1>10. DecisionsExclusive'
  BY <1>1, <1>9 DEF Deciding, DecisionsExclusive, Subject, Called
<1>11. DecidingAlone'
  BY <1>1 DEF Deciding, DecidingAlone, Subject, Called, InSight, Visible
<1>12. AcceptedHasDeal'
  <2>1. ASSUME NEW y \in 1 .. proposals, verdict'[y] \in {"accepted", "done"}, about[y] # Other
        PROVE  verdict[y] \in {"accepted", "done"}
    BY <2>1, <1>1, <1>2, <1>4, <1>5
  <2> QED BY <2>1, <1>1 DEF Deciding, AcceptedHasDeal
<1> QED BY <1>6, <1>7, <1>8, <1>10, <1>11, <1>12 DEF Deciding

\* A decision on a deal mention begins.
LEMMA AcceptMentionKeepsDeciding ==
  ASSUME Deciding, NEW u \in Users, NEW x \in Rows, AcceptMention(u, x)
  PROVE  Deciding'
<1> USE Bounds
<1>1. /\ UNCHANGED <<readers, link, blind, proposals, source, about, verdict, companies, named, onFile, deals,
                     company, stage, team, restricted>>
      /\ tx' = [tx EXCEPT ![u] = Begun(x)]
      /\ tx[u].at = "idle" /\ verdict[x] = "proposed" /\ about[x] # Other
      /\ \A o \in Users : tx[o].at # "idle" => tx[o].row # x
      /\ raced' = IF Busy(about[x]) THEN raced \cup {about[x]} ELSE raced
  BY DEF AcceptMention, Locked, Touches, rowVars, fileVars, firmVars, dealVars
<1>2. x \in 1 .. proposals
  <2>1. verdict[x] # "none"
    BY <1>1
  <2> QED BY <2>1 DEF Deciding, DecisionTypes, RowsSound, Rows
<1>3. \A o \in Users : tx'[o] = IF o = u THEN Begun(x) ELSE tx[o]
  BY <1>1 DEF Deciding, DecisionTypes
<1>4. \A o \in Users : Subject(o)' = IF o = u THEN about[x] ELSE Subject(o)
  BY <1>1, <1>3 DEF Subject, Begun
<1>5. DecisionTypes' /\ RowsSound' /\ CompaniesCounted' /\ AcceptedHasDeal'
  <2>1. tx' \in [Users -> [at : Places, row : {0} \cup Rows, company : {0} \cup Firms,
                           deal : 0 .. MaxDeals, claims : BOOLEAN]]
    <3>1. Begun(x) \in [at : Places, row : {0} \cup Rows, company : {0} \cup Firms,
                        deal : 0 .. MaxDeals, claims : BOOLEAN]
      BY DEF Begun, Places
    <3> QED BY <3>1, <1>1 DEF Deciding, DecisionTypes
  <2>2. DecisionTypes'
    BY <1>1, <2>1 DEF Deciding, DecisionTypes
  <2>3. RowsSound' /\ AcceptedHasDeal'
    BY <1>1 DEF Deciding, RowsSound, AcceptedHasDeal
  <2>4. CompaniesCounted'
    BY <1>1 DEF Deciding, CompaniesCounted, Decided
  <2> QED BY <2>2, <2>3, <2>4
<1>6. \A k : Called(k)' = Called(k)
  BY <1>1 DEF Called
<1>7. DecisionsExclusive'
  <2>1. ASSUME NEW o \in Users \ {u}, tx'[o].at # "idle"
        PROVE  /\ tx'[o] = tx[o] /\ tx'[o].row # x /\ Subject(o)' = Subject(o)
               /\ tx'[u].row = x /\ ~ tx'[u].claims
    BY <2>1, <1>1, <1>3, <1>4 DEF Begun
  <2> QED BY <2>1, <1>1, <1>2, <1>3, <1>4, <1>6 DEF Deciding, DecisionsExclusive, Begun
<1>8. DecidingAlone'
  <2>1. \A k \in Names \ raced' : \A c, d \in Called(k)' : c = d
    BY <1>1, <1>6 DEF Deciding, DecidingAlone
  <2>2. \A o \in Users : \A k : InSight(o, k)' = InSight(o, k)
    BY <1>1 DEF InSight, Visible
  <2>3. ASSUME NEW o \in Users \ {u}, tx[o].at # "idle", Subject(o) = about[x]
        PROVE  about[x] \in raced'
    BY <1>1, <2>3 DEF Busy
  <2>4. \A o \in Users : tx'[o].at # "idle" /\ Subject(o)' \notin raced' =>
          \A p \in Users \ {o} : tx'[p].at # "idle" => Subject(p)' # Subject(o)'
    BY <2>3, <1>1, <1>3, <1>4 DEF Deciding, DecidingAlone
  <2>5. \A o \in Users : tx'[o].at # "idle" /\ Subject(o)' \notin raced' =>
          /\ tx'[o].at = "adding" \/ (tx'[o].at = "saving" /\ tx'[o].company = 0) => Called(Subject(o))' = {}
          /\ tx'[o].at = "saving" /\ tx'[o].deal = 0 => InSight(o, Subject(o))' = {}
    BY <1>1, <1>3, <1>4, <1>6, <2>2 DEF Deciding, DecidingAlone, Begun
  <2> QED BY <2>1, <2>4, <2>5 DEF DecidingAlone
<1> QED BY <1>5, <1>7, <1>8 DEF Deciding

\* What a decision in progress may have become, without anything else changing.
OnTrack(u, t) ==
  /\ t.row = tx[u].row
  /\ t.claims => /\ onFile[Subject(u)] = 0
                 /\ \A o \in Users \ {u} : ~ (tx[o].at # "idle" /\ tx[o].claims /\ Subject(o) = Subject(u))
  /\ t.at \in {"company", "adding"} => t.company = 0 /\ t.deal = 0
  /\ t.at = "deal" => t.company # 0 /\ t.deal = 0
  /\ t.company # 0 => t.company \in Called(Subject(u))
  /\ t.deal # 0 => t.company # 0 /\ t.deal \in 1 .. deals /\ company[t.deal] = t.company
  /\ Subject(u) \notin raced =>
       /\ t.at = "adding" \/ (t.at = "saving" /\ t.company = 0) => Called(Subject(u)) = {}
       /\ t.at = "saving" /\ t.deal = 0 => InSight(u, Subject(u)) = {}

\* A statement of one transaction that is not visible to the others.
LEMMA StatementKeepsDeciding ==
  ASSUME Deciding, NEW u \in Users, NEW t, tx[u].at # "idle",
         UNCHANGED <<fileVars, rowVars, verdict, firmVars, dealVars, raced>>,
         tx' = [tx EXCEPT ![u] = t],
         t \in [at : Places, row : {0} \cup Rows, company : {0} \cup Firms,
                deal : 0 .. MaxDeals, claims : BOOLEAN],
         t.at # "idle" => OnTrack(u, t)
  PROVE  Deciding'
<1> USE Bounds
<1>1. UNCHANGED <<readers, link, blind, proposals, source, about, verdict, companies, named, onFile,
                  deals, company, stage, team, restricted, raced>>
  BY DEF rowVars, fileVars, firmVars, dealVars
<1>2. \A o \in Users : tx'[o] = IF o = u THEN t ELSE tx[o]
  BY DEF Deciding, DecisionTypes
<1>3. DecisionTypes'
  <2>1. tx' \in [Users -> [at : Places, row : {0} \cup Rows, company : {0} \cup Firms,
                           deal : 0 .. MaxDeals, claims : BOOLEAN]]
    BY DEF Deciding, DecisionTypes
  <2> QED BY <1>1, <2>1 DEF Deciding, DecisionTypes
<1>4. RowsSound' /\ AcceptedHasDeal'
  BY <1>1 DEF Deciding, RowsSound, AcceptedHasDeal
<1>5. CompaniesCounted'
  BY <1>1 DEF Deciding, CompaniesCounted, Decided
<1>6. \A k : Called(k)' = Called(k)
  BY <1>1 DEF Called
<1>7. \A o \in Users : \A k : InSight(o, k)' = InSight(o, k)
  BY <1>1 DEF InSight, Visible
<1>8. \A o \in Users : tx'[o].at # "idle" =>
        /\ tx[o].at # "idle" /\ tx'[o].row = tx[o].row /\ Subject(o)' = Subject(o)
        /\ o # u => tx'[o] = tx[o]
  BY <1>1, <1>2 DEF Subject, OnTrack
<1>9. DecisionsExclusive'
  <2>1. ASSUME NEW o \in Users, tx'[o].at # "idle"
        PROVE  /\ tx'[o].row \in 1 .. proposals
               /\ verdict[tx'[o].row] = "proposed" /\ Subject(o) # Other
               /\ tx'[o].claims => onFile[Subject(o)] = 0
               /\ tx'[o].at \in {"company", "adding"} => tx'[o].company = 0 /\ tx'[o].deal = 0
               /\ tx'[o].at = "deal" => tx'[o].company # 0 /\ tx'[o].deal = 0
               /\ tx'[o].company # 0 => tx'[o].company \in Called(Subject(o))
               /\ tx'[o].deal # 0 => /\ tx'[o].company # 0 /\ tx'[o].deal \in 1 .. deals
                                     /\ company[tx'[o].deal] = tx'[o].company
    BY <2>1, <1>2, <1>8 DEF Deciding, DecisionsExclusive, OnTrack
  <2>2. ASSUME NEW o \in Users, tx'[o].at # "idle", NEW p \in Users \ {o}, tx'[p].at # "idle"
        PROVE  tx'[p].row # tx'[o].row
    BY <2>2, <1>8 DEF Deciding, DecisionsExclusive
  <2>3. ASSUME NEW o \in Users, tx'[o].at # "idle", NEW p \in Users \ {o}, tx'[p].at # "idle",
               tx'[o].claims, tx'[p].claims
        PROVE  Subject(p) # Subject(o)
    BY <2>3, <1>2, <1>8 DEF Deciding, DecisionsExclusive, OnTrack
  <2> QED BY <2>1, <2>2, <2>3, <1>1, <1>6, <1>8 DEF DecisionsExclusive
<1>10. DecidingAlone'
  <2>1. \A k \in Names \ raced' : \A c, d \in Called(k)' : c = d
    BY <1>1, <1>6 DEF Deciding, DecidingAlone
  <2>2. ASSUME NEW o \in Users, tx'[o].at # "idle", Subject(o) \notin raced
        PROVE  /\ \A p \in Users \ {o} : tx'[p].at # "idle" => Subject(p)' # Subject(o)
               /\ tx'[o].at = "adding" \/ (tx'[o].at = "saving" /\ tx'[o].company = 0)
                    => Called(Subject(o)) = {}
               /\ tx'[o].at = "saving" /\ tx'[o].deal = 0 => InSight(o, Subject(o)) = {}
    BY <2>2, <1>2, <1>8 DEF Deciding, DecidingAlone, OnTrack
  <2> QED BY <2>1, <2>2, <1>1, <1>6, <1>7, <1>8 DEF DecidingAlone
<1> QED BY <1>3, <1>4, <1>5, <1>9, <1>10 DEF Deciding

\* The company is looked for.
LEMMA FindCompanyKeepsDeciding ==
  ASSUME Deciding, NEW u \in Users, FindCompany(u)
  PROVE  Deciding'
<1> DEFINE k == Subject(u)
           found == IF onFile[k] # 0 THEN {onFile[k]} ELSE Called(k)
<1> USE Bounds
<1>1. /\ tx[u].at = "company" /\ tx[u].company = 0 /\ tx[u].deal = 0 /\ k \in Names
      /\ UNCHANGED <<fileVars, rowVars, verdict, firmVars, dealVars, raced>>
  BY DEF FindCompany, Deciding, DecisionTypes, DecisionsExclusive, Subject, Rows
<1>2. found \subseteq Called(k) /\ (found = {} => Called(k) = {})
  BY <1>1 DEF Deciding, RowsSound, Called
<1>3. CASE found = {} /\ tx' = [tx EXCEPT ![u].at = "adding"]
  <2>1. tx' = [tx EXCEPT ![u] = [tx[u] EXCEPT !.at = "adding"]]
    BY <1>3
  <2>2. [tx[u] EXCEPT !.at = "adding"] \in [at : Places, row : {0} \cup Rows, company : {0} \cup Firms,
                                           deal : 0 .. MaxDeals, claims : BOOLEAN]
    BY DEF Deciding, DecisionTypes, Places
  <2>3. OnTrack(u, [tx[u] EXCEPT !.at = "adding"])
    BY <1>1, <1>2, <1>3 DEF Deciding, DecisionTypes, DecisionsExclusive, OnTrack
  <2> QED BY <1>1, <2>1, <2>2, <2>3, StatementKeepsDeciding
<1>4. ASSUME NEW c \in found, tx' = [tx EXCEPT ![u].at = "deal", ![u].company = c]
      PROVE  Deciding'
  <2>1. tx' = [tx EXCEPT ![u] = [tx[u] EXCEPT !.at = "deal", !.company = c]]
    BY <1>4 DEF Deciding, DecisionTypes
  <2>2. c \in Firms /\ c # 0 /\ c \in Called(k)
    BY <1>2 DEF Called, Deciding, DecisionTypes, Firms
  <2>3. [tx[u] EXCEPT !.at = "deal", !.company = c] \in
          [at : Places, row : {0} \cup Rows, company : {0} \cup Firms, deal : 0 .. MaxDeals, claims : BOOLEAN]
    BY <2>2 DEF Deciding, DecisionTypes, Places
  <2>4. OnTrack(u, [tx[u] EXCEPT !.at = "deal", !.company = c])
    BY <1>1, <2>2 DEF Deciding, DecisionTypes, DecisionsExclusive, OnTrack
  <2> QED BY <1>1, <2>1, <2>3, <2>4, StatementKeepsDeciding
<1> QED BY <1>3, <1>4 DEF FindCompany

\* A company is added, unless somebody else is adding one for the same domain.
LEMMA AddCompanyKeepsDeciding ==
  ASSUME Deciding, NEW u \in Users, AddCompany(u)
  PROVE  Deciding'
<1> DEFINE t == [tx[u] EXCEPT !.at = "saving", !.claims = (Subject(u) \in WithDomain /\ onFile[Subject(u)] = 0)]
<1> USE Bounds
<1>1. /\ tx[u].at = "adding" /\ tx[u].company = 0 /\ tx[u].deal = 0
      /\ \A o \in Users \ {u} : ~ (tx[o].claims /\ Subject(o) = Subject(u))
      /\ UNCHANGED <<fileVars, rowVars, verdict, firmVars, dealVars, raced>>
  BY DEF AddCompany, Deciding, DecisionsExclusive
<1>2. tx' = [tx EXCEPT ![u] = t]
  BY DEF AddCompany, Deciding, DecisionTypes
<1>3. t \in [at : Places, row : {0} \cup Rows, company : {0} \cup Firms,
             deal : 0 .. MaxDeals, claims : BOOLEAN]
  BY DEF Deciding, DecisionTypes, Places
<1>4. Subject(u) \notin raced => Called(Subject(u)) = {} /\ InSight(u, Subject(u)) = {}
  <2>1. Subject(u) \notin raced => Called(Subject(u)) = {}
    BY <1>1 DEF Deciding, DecidingAlone
  <2> QED BY <2>1 DEF Deciding, RowsSound, Called, InSight
<1>5. OnTrack(u, t)
  BY <1>1, <1>4 DEF Deciding, DecisionTypes, OnTrack
<1> QED BY <1>1, <1>2, <1>3, <1>5, StatementKeepsDeciding

\* A deal of the company is looked for: what is not found is not there to be seen.
LEMMA FindDealKeepsDeciding ==
  ASSUME Deciding, NEW u \in Users, FindDeal(u)
  PROVE  Deciding'
<1> DEFINE open == {d \in 1 .. deals : company[d] = tx[u].company /\ stage[d] # "closed" /\ Visible(u, d)}
<1> USE Bounds
<1>1. /\ tx[u].at = "deal" /\ tx[u].company \in Called(Subject(u)) /\ tx[u].company # 0 /\ tx[u].deal = 0
      /\ UNCHANGED <<fileVars, rowVars, verdict, firmVars, dealVars, raced>>
  BY DEF FindDeal, Deciding, DecisionsExclusive
<1>2. CASE open = {} /\ tx' = [tx EXCEPT ![u].at = "saving"]
  <2>1. tx' = [tx EXCEPT ![u] = [tx[u] EXCEPT !.at = "saving"]]
    BY <1>2
  <2>2. [tx[u] EXCEPT !.at = "saving"] \in [at : Places, row : {0} \cup Rows, company : {0} \cup Firms,
                                           deal : 0 .. MaxDeals, claims : BOOLEAN]
    BY DEF Deciding, DecisionTypes, Places
  <2>3. ASSUME Subject(u) \notin raced, NEW d \in InSight(u, Subject(u))
        PROVE  FALSE
    <3>1. d \in 1 .. deals /\ company[d] \in Called(Subject(u)) /\ stage[d] # "closed" /\ Visible(u, d)
      BY DEF InSight, Called, Deciding, RowsSound
    <3>2. Subject(u) \in Names
      BY <1>1 DEF Called, Deciding, DecisionTypes, DecisionsExclusive, Subject, Rows
    <3>3. company[d] = tx[u].company
      BY <2>3, <3>1, <3>2, <1>1 DEF Deciding, DecidingAlone
    <3> QED BY <3>1, <3>3, <1>2
  <2>4. OnTrack(u, [tx[u] EXCEPT !.at = "saving"])
    BY <1>1, <2>3 DEF Deciding, DecisionTypes, DecisionsExclusive, OnTrack
  <2> QED BY <1>1, <2>1, <2>2, <2>4, StatementKeepsDeciding
<1>3. ASSUME NEW d \in open, tx' = [tx EXCEPT ![u].at = "saving", ![u].deal = d]
      PROVE  Deciding'
  <2>1. tx' = [tx EXCEPT ![u] = [tx[u] EXCEPT !.at = "saving", !.deal = d]]
    BY <1>3 DEF Deciding, DecisionTypes
  <2>2. d \in 1 .. deals /\ d \in 0 .. MaxDeals /\ d # 0 /\ company[d] = tx[u].company
    BY DEF Deciding, DecisionTypes
  <2>3. [tx[u] EXCEPT !.at = "saving", !.deal = d] \in
          [at : Places, row : {0} \cup Rows, company : {0} \cup Firms, deal : 0 .. MaxDeals, claims : BOOLEAN]
    BY <2>2 DEF Deciding, DecisionTypes, Places
  <2>4. OnTrack(u, [tx[u] EXCEPT !.at = "saving", !.deal = d])
    BY <1>1, <2>2 DEF Deciding, DecisionTypes, DecisionsExclusive, OnTrack
  <2> QED BY <1>1, <2>1, <2>3, <2>4, StatementKeepsDeciding
<1> QED BY <1>2, <1>3 DEF FindDeal

\* A decision that fails leaves nothing behind.
LEMMA AbandonKeepsDeciding ==
  ASSUME Deciding, NEW u \in Users, Abandon(u)
  PROVE  Deciding'
<1>1. Idle \in [at : Places, row : {0} \cup Rows, company : {0} \cup Firms,
                deal : 0 .. MaxDeals, claims : BOOLEAN] /\ Idle.at = "idle"
  BY Bounds DEF Idle, Places
<1> QED BY <1>1, StatementKeepsDeciding DEF Abandon

\* A change to the deals of one company, by somebody with no decision: whoever is
\* deciding about the company has company from then on.
LEMMA EditKeepsDeciding ==
  ASSUME Deciding, NEW k \in Names, Edit(k),
         deals' \in 0 .. MaxDeals, deals <= deals',
         company' \in [Deals -> {0} \cup Firms], stage' \in [Deals -> {"sourced", "active", "closed"}],
         team' \in [Deals -> SUBSET Users], restricted' \subseteq Deals,
         \A d \in 1 .. deals : company'[d] = company[d],
         \A d \in 1 .. deals' : company'[d] \in 1 .. companies,
         \A o \in Users, n \in Names \ {k} : InSight(o, n)' \subseteq InSight(o, n)
  PROVE  Deciding'
<1> USE Bounds
<1>1. /\ UNCHANGED <<readers, link, blind, proposals, source, about, verdict, companies, named, onFile, tx>>
      /\ raced' = IF Busy(k) THEN raced \cup {k} ELSE raced
  BY DEF Edit, Touches, rowVars, fileVars, firmVars
<1>2. DecisionTypes'
  BY <1>1 DEF Deciding, DecisionTypes
<1>3. deals \in Nat /\ deals' \in Nat
  BY DEF Deciding, DecisionTypes
<1>4. RowsSound'
  BY <1>1, <1>3 DEF Deciding, DecisionTypes, RowsSound
<1>5. CompaniesCounted'
  BY <1>1 DEF Deciding, CompaniesCounted, Decided
<1>6. \A d \in 1 .. deals : d \in 1 .. deals' /\ company'[d] = company[d]
  BY <1>3
<1>7. AcceptedHasDeal'
  <2>1. ASSUME NEW x \in 1 .. proposals, verdict[x] \in {"accepted", "done"}, about[x] # Other
        PROVE  /\ link[source[x]] \in 1 .. deals' \/ x \in blind
               /\ \E d \in 1 .. deals' : named[company'[d]] = about[x]
    BY <2>1, <1>6 DEF Deciding, AcceptedHasDeal
  <2> QED BY <2>1, <1>1 DEF AcceptedHasDeal
<1>8. \A n : Called(n)' = Called(n)
  BY <1>1 DEF Called
<1>9. \A o \in Users : Subject(o)' = Subject(o)
  BY <1>1 DEF Subject
<1>10. DecisionsExclusive'
  BY <1>1, <1>6, <1>8, <1>9 DEF Deciding, DecisionsExclusive
<1>11. DecidingAlone'
  <2>1. \A n \in Names \ raced' : n \notin raced
    BY <1>1
  <2>2. ASSUME NEW o \in Users, tx[o].at # "idle", Subject(o) \notin raced'
        PROVE  Subject(o) \notin raced /\ Subject(o) \in Names \ {k}
    <3>1. Subject(o) \in Names
      BY <2>2 DEF Deciding, DecisionTypes, DecisionsExclusive, Subject, Rows
    <3>2. Subject(o) # k
      BY <2>2, <1>1 DEF Busy
    <3> QED BY <2>2, <3>1, <3>2, <2>1
  <2>3. ASSUME NEW o \in Users, tx[o].at # "idle", Subject(o) \notin raced'
        PROVE  /\ \A p \in Users \ {o} : tx[p].at # "idle" => Subject(p) # Subject(o)
               /\ tx[o].at = "adding" \/ (tx[o].at = "saving" /\ tx[o].company = 0) => Called(Subject(o)) = {}
    BY <2>2, <2>3 DEF Deciding, DecidingAlone
  <2>4. ASSUME NEW o \in Users, tx[o].at = "saving", tx[o].deal = 0, NEW n \in Names, n = Subject(o),
               n \notin raced'
        PROVE  InSight(o, n)' = {}
    BY <2>2, <2>4 DEF Deciding, DecidingAlone
  <2>5. \A n \in Names \ raced' : \A c, d \in Called(n)' : c = d
    BY <2>1, <1>8 DEF Deciding, DecidingAlone
  <2>6. ASSUME NEW o \in Users, tx[o].at = "saving", tx[o].deal = 0, Subject(o) \notin raced'
        PROVE  InSight(o, Subject(o))' = {}
    <3>1. Subject(o) \in Names
      BY <2>2, <2>6
    <3>2. PICK n \in Names : n = Subject(o) /\ n = Subject(o)'
      BY <3>1, <1>9
    <3>3. InSight(o, n)' = {}
      BY <2>4, <2>6, <3>2, <1>9
    <3> QED BY <3>2, <3>3 DEF InSight
  <2> QED BY <2>3, <2>5, <2>6, <1>1, <1>8, <1>9 DEF DecidingAlone
<1> QED BY <1>2, <1>4, <1>5, <1>7, <1>10, <1>11 DEF Deciding

\* The deal routes.
LEMMA CreateDealKeepsDeciding ==
  ASSUME Deciding, NEW u \in Users, NEW c \in Firms, CreateDeal(u, c)
  PROVE  Deciding'
<1> USE Bounds
<1>1. /\ deals \in Nat /\ deals < MaxDeals /\ deals' = deals + 1 /\ c \in 1 .. companies
      /\ company' = [company EXCEPT ![deals + 1] = c]
      /\ stage'   = [stage EXCEPT ![deals + 1] = "sourced"]
      /\ team'    = [team EXCEPT ![deals + 1] = {u}]
      /\ restricted' \in {restricted, restricted \cup {deals + 1}}
      /\ Edit(named[c]) /\ named' = named
  BY DEF CreateDeal, Edit, firmVars, Deciding, DecisionTypes, Firms
<1>2. deals + 1 \in Deals /\ deals' \in 0 .. MaxDeals /\ deals <= deals' /\ named[c] \in Names
  BY <1>1 DEF Deciding, DecisionTypes, Deals
<1>3. /\ company' \in [Deals -> {0} \cup Firms] /\ stage' \in [Deals -> {"sourced", "active", "closed"}]
      /\ team' \in [Deals -> SUBSET Users] /\ restricted' \subseteq Deals
  BY <1>1, <1>2 DEF Deciding, DecisionTypes
<1>4. \A d \in 1 .. deals : /\ company'[d] = company[d] /\ stage'[d] = stage[d] /\ team'[d] = team[d]
                            /\ d \in restricted' <=> d \in restricted
  BY <1>1 DEF Deciding, DecisionTypes, Deals
<1>5. \A d \in 1 .. deals' : d \in 1 .. deals \/ d = deals + 1
  BY <1>1
<1>6. company'[deals + 1] = c
  BY <1>1, <1>2 DEF Deciding, DecisionTypes
<1>7. \A d \in 1 .. deals' : company'[d] \in 1 .. companies
  BY <1>1, <1>4, <1>5, <1>6 DEF Deciding, RowsSound
<1>8. \A o \in Users, n \in Names \ {named[c]} : InSight(o, n)' \subseteq InSight(o, n)
  BY <1>1, <1>4, <1>5, <1>6 DEF InSight, Visible
<1>9. \A d \in 1 .. deals : company'[d] = company[d]
  BY <1>4
<1> QED BY <1>1, <1>2, <1>3, <1>7, <1>8, <1>9, EditKeepsDeciding

LEMMA UpdateDealKeepsDeciding ==
  ASSUME Deciding, NEW u \in Users, NEW d \in Deals, UpdateDeal(u, d)
  PROVE  Deciding'
<1> USE Bounds
<1>1. PICK s \in {"sourced", "active", "closed"} : stage' = [stage EXCEPT ![d] = s]
  BY DEF UpdateDeal
<1>2. /\ deals' = deals /\ company' = company /\ team' = team /\ named' = named /\ d \in 1 .. deals
      /\ restricted' \in {restricted \ {d}, restricted \cup {d}}
      /\ Edit(named[company[d]])
  BY DEF UpdateDeal, Edit, firmVars, Deciding, DecisionTypes, Deals
<1>3. /\ deals' \in 0 .. MaxDeals /\ deals <= deals' /\ named[company[d]] \in Names
      /\ \A e \in 1 .. deals' : company'[e] \in 1 .. companies
  BY <1>2 DEF Deciding, DecisionTypes, RowsSound, Firms
<1>4. /\ company' \in [Deals -> {0} \cup Firms] /\ stage' \in [Deals -> {"sourced", "active", "closed"}]
      /\ team' \in [Deals -> SUBSET Users] /\ restricted' \subseteq Deals
  BY <1>1, <1>2 DEF Deciding, DecisionTypes
<1>5. \A e \in 1 .. deals : e # d => stage'[e] = stage[e] /\ (e \in restricted' <=> e \in restricted)
  BY <1>1, <1>2 DEF Deciding, DecisionTypes, Deals
<1>6. \A o \in Users, n \in Names \ {named[company[d]]} : InSight(o, n)' \subseteq InSight(o, n)
  BY <1>2, <1>5 DEF InSight, Visible
<1> QED BY <1>2, <1>3, <1>4, <1>6, EditKeepsDeciding

LEMMA JoinTeamKeepsDeciding ==
  ASSUME Deciding, NEW u \in Users, NEW v \in Users, NEW d \in Deals, JoinTeam(u, v, d)
  PROVE  Deciding'
<1> USE Bounds
<1>1. /\ deals' = deals /\ company' = company /\ stage' = stage /\ restricted' = restricted
      /\ named' = named /\ d \in 1 .. deals
      /\ team' = [team EXCEPT ![d] = @ \cup {v}]
      /\ Edit(named[company[d]])
  BY DEF JoinTeam, Edit, firmVars, Deciding, DecisionTypes, Deals
<1>2. /\ deals' \in 0 .. MaxDeals /\ deals <= deals' /\ named[company[d]] \in Names
      /\ \A e \in 1 .. deals' : company'[e] \in 1 .. companies
  BY <1>1 DEF Deciding, DecisionTypes, RowsSound, Firms
<1>3. /\ company' \in [Deals -> {0} \cup Firms] /\ stage' \in [Deals -> {"sourced", "active", "closed"}]
      /\ team' \in [Deals -> SUBSET Users] /\ restricted' \subseteq Deals
  BY <1>1 DEF Deciding, DecisionTypes
<1>4. \A e \in 1 .. deals : e # d => team'[e] = team[e]
  BY <1>1 DEF Deciding, DecisionTypes
<1>5. \A o \in Users, n \in Names \ {named[company[d]]} : InSight(o, n)' \subseteq InSight(o, n)
  BY <1>1, <1>4 DEF InSight, Visible
<1> QED BY <1>1, <1>2, <1>3, <1>5, EditKeepsDeciding

\* A decision commits.  Its name has a company and a deal then; what is new bears
\* its name, so that only decisions about the same name could tell.
LEMMA AcceptCommitKeepsDeciding ==
  ASSUME Deciding, NEW u \in Users, AcceptCommit(u)
  PROVE  Deciding'
<1> DEFINE t == tx[u]
           k == Subject(u)
           i == source[t.row]
           c == IF t.company = 0 THEN companies + 1 ELSE t.company
           d == IF t.deal = 0 THEN deals + 1 ELSE t.deal
<1> USE Bounds
\* the decision, and what it writes
<1>1. /\ t.at = "saving" /\ t.row \in 1 .. proposals /\ t.row \in Rows
      /\ verdict[t.row] = "proposed" /\ k \in Names /\ k # Other /\ k = about[t.row] /\ i \in Interactions
      /\ t.company \in {0} \cup Firms /\ t.deal \in 0 .. MaxDeals /\ t.claims \in BOOLEAN
      /\ t.claims => onFile[k] = 0
      /\ t.company # 0 => t.company \in Called(k)
      /\ t.deal # 0 => t.company # 0 /\ t.deal \in 1 .. deals /\ company[t.deal] = t.company
  BY DEF AcceptCommit, Deciding, DecisionTypes, DecisionsExclusive, Subject, Rows
<1>2. /\ d <= MaxDeals
      /\ IF t.company = 0
           THEN /\ companies' = c
                /\ named' = [named EXCEPT ![c] = k]
                /\ onFile' = IF t.claims THEN [onFile EXCEPT ![k] = c] ELSE onFile
           ELSE UNCHANGED <<companies, named, onFile>>
      /\ IF t.deal = 0
           THEN /\ deals' = d
                /\ company' = [company EXCEPT ![d] = c]
                /\ stage' = [stage EXCEPT ![d] = "sourced"]
           ELSE UNCHANGED <<deals, company, stage>>
      /\ link' = IF u \in readers[i] /\ link[i] = 0 THEN [link EXCEPT ![i] = d] ELSE link
      /\ blind' = IF u \in readers[i] THEN blind ELSE blind \cup {t.row}
      /\ verdict' = [verdict EXCEPT ![t.row] = "accepted"]
      /\ tx' = [tx EXCEPT ![u] = Idle]
      /\ UNCHANGED <<readers, proposals, source, about, team, restricted, raced>>
  BY <1>1 DEF AcceptCommit, rowVars, fileVars, firmVars
<1>3. /\ proposals \in Nat /\ proposals <= MaxProposals
      /\ companies \in Nat /\ companies <= 1 + MaxProposals
      /\ deals \in Nat /\ deals <= MaxDeals
  BY DEF Deciding, DecisionTypes, Firms
\* one company per decision fits the bound
<1>4. /\ Decided' = Decided \cup {t.row} /\ Cardinality(Decided) \in Nat
      /\ Cardinality(Decided') = Cardinality(Decided) + 1 /\ Cardinality(Decided) < proposals
  <2>1. \A x \in 1 .. proposals : verdict'[x] = IF x = t.row THEN "accepted" ELSE verdict[x]
    BY <1>1, <1>2, <1>3 DEF Deciding, DecisionTypes, Rows
  <2>2. Decided' = Decided \cup {t.row}
    BY <1>1, <1>2, <2>1 DEF Decided
  <2>3. Decided \in SUBSET (1 .. proposals) /\ t.row \notin Decided
    BY <1>1 DEF Decided
  <2> QED BY <1>1, <1>3, <2>2, <2>3, ProposalCount
<1>5. /\ c \in Firms /\ c \in 1 .. companies' /\ companies <= companies' /\ companies' \in Firms
      /\ companies' \in {companies, companies + 1}
  BY <1>1, <1>2, <1>3, <1>4 DEF Deciding, CompaniesCounted, Firms, Called
<1>6. named' \in [Firms -> Names] /\ onFile' \in [Names -> {0} \cup Firms]
  <2>1. named \in [Firms -> Names] /\ onFile \in [Names -> {0} \cup Firms]
    BY DEF Deciding, DecisionTypes
  <2> HIDE DEF t, k, c
  <2>2. CASE t.company = 0
    BY <2>1, <2>2, <1>1, <1>2, <1>5
  <2>3. CASE t.company # 0
    BY <2>1, <2>3, <1>2
  <2> QED BY <2>2, <2>3
<1>7. /\ \A e \in 1 .. companies : named'[e] = named[e]
      /\ named'[c] = k
      /\ \A e \in 1 .. companies' : e \in 1 .. companies \/ (e = c /\ t.company = 0)
  <2>1. CASE t.company = 0
    BY <2>1, <1>1, <1>2, <1>3, <1>5 DEF Deciding, DecisionTypes, Firms
  <2>2. CASE t.company # 0
    BY <2>2, <1>1, <1>2 DEF Called
  <2> QED BY <2>1, <2>2
<1>8. d \in Deals /\ d \in 1 .. deals' /\ deals <= deals' /\ deals' \in 0 .. MaxDeals
  BY <1>1, <1>2, <1>3 DEF Deals
<1>9. /\ company' \in [Deals -> {0} \cup Firms] /\ stage' \in [Deals -> {"sourced", "active", "closed"}]
      /\ link' \in [Interactions -> 0 .. MaxDeals]
  BY <1>1, <1>2, <1>3, <1>5, <1>8 DEF Deciding, DecisionTypes
<1>10. /\ \A e \in 1 .. deals : company'[e] = company[e] /\ stage'[e] = stage[e]
       /\ company'[d] = c
       /\ \A e \in 1 .. deals' : e \in 1 .. deals \/ e = d
  <2>1. CASE t.deal = 0
    BY <2>1, <1>1, <1>2, <1>3, <1>8 DEF Deciding, DecisionTypes, Deals
  <2>2. CASE t.deal # 0
    BY <2>2, <1>1, <1>2
  <2> QED BY <2>1, <2>2
<1>11. /\ \A j \in Interactions : link'[j] = IF u \in readers[i] /\ j = i /\ link[j] = 0 THEN d ELSE link[j]
       /\ blind \subseteq blind' /\ (u \in readers[i] \/ t.row \in blind')
  BY <1>1, <1>2 DEF Deciding, DecisionTypes
<1>12. \A x \in Rows : verdict'[x] = IF x = t.row THEN "accepted" ELSE verdict[x]
  BY <1>1, <1>2 DEF Deciding, DecisionTypes
<1>13. \A o \in Users : tx'[o] = IF o = u THEN Idle ELSE tx[o]
  BY <1>2 DEF Deciding, DecisionTypes
<1>14. \A n \in Names : onFile'[n] = IF n = k /\ t.claims /\ t.company = 0 THEN c ELSE onFile[n]
  BY <1>1, <1>2, <1>6 DEF Deciding, DecisionTypes
\* the invariant, part by part
<1>15. DecisionTypes'
  <2>1. verdict' \in [Rows -> {"none", "proposed", "accepted", "rejected", "done"}]
    BY <1>2 DEF Deciding, DecisionTypes
  <2>2. tx' \in [Users -> [at : Places, row : {0} \cup Rows, company : {0} \cup Firms,
                           deal : 0 .. MaxDeals, claims : BOOLEAN]]
    <3>1. Idle \in [at : Places, row : {0} \cup Rows, company : {0} \cup Firms,
                    deal : 0 .. MaxDeals, claims : BOOLEAN]
      BY DEF Idle, Places
    <3> QED BY <3>1, <1>2 DEF Deciding, DecisionTypes
  <2> QED BY <2>1, <2>2, <1>2, <1>5, <1>6, <1>8, <1>9 DEF Deciding, DecisionTypes
<1>16. RowsSound'
  <2>1. \A x \in Rows : x > proposals' => verdict'[x] = "none"
    BY <1>1, <1>2, <1>3, <1>12 DEF Deciding, RowsSound, Rows
  <2>2. ASSUME NEW n \in Names, onFile'[n] # 0
        PROVE  onFile'[n] \in 1 .. companies' /\ named'[onFile'[n]] = n
    BY <2>2, <1>3, <1>5, <1>7, <1>14 DEF Deciding, RowsSound
  <2>3. \A e \in 1 .. deals' : company'[e] \in 1 .. companies'
    BY <1>3, <1>5, <1>10 DEF Deciding, RowsSound
  <2>4. \A j \in Interactions : link'[j] <= deals'
    BY <1>3, <1>8, <1>11 DEF Deciding, DecisionTypes, RowsSound
  <2> QED BY <2>1, <2>2, <2>3, <2>4 DEF RowsSound
<1>17. CompaniesCounted'
  BY <1>3, <1>4, <1>5 DEF Deciding, CompaniesCounted
<1>18. AcceptedHasDeal'
  <2>1. ASSUME NEW x \in 1 .. proposals, x # t.row, verdict[x] \in {"accepted", "done"}, about[x] # Other
        PROVE  /\ link'[source[x]] \in 1 .. deals' \/ x \in blind'
               /\ \E e \in 1 .. deals' : named'[company'[e]] = about[x]
    <3>1. source[x] \in Interactions
      BY <1>3 DEF Deciding, DecisionTypes, Rows
    <3>2. link[source[x]] \in 1 .. deals \/ x \in blind
      BY <2>1 DEF Deciding, AcceptedHasDeal
    <3>3. PICK e \in 1 .. deals : named[company[e]] = about[x]
      BY <2>1 DEF Deciding, AcceptedHasDeal
    <3>4. e \in 1 .. deals' /\ named'[company'[e]] = about[x]
      BY <3>3, <1>3, <1>7, <1>8, <1>10 DEF Deciding, RowsSound
    <3> QED BY <3>1, <3>2, <3>4, <1>3, <1>8, <1>11
  <2>2. (link'[i] \in 1 .. deals' \/ t.row \in blind') /\ \E e \in 1 .. deals' : named'[company'[e]] = k
    <3>1. link[i] \in 0 .. MaxDeals /\ link[i] <= deals
      BY <1>1 DEF Deciding, DecisionTypes, RowsSound
    <3> QED BY <3>1, <1>1, <1>3, <1>7, <1>8, <1>10, <1>11
  <2>3. \A x \in 1 .. proposals : x \in Rows
    BY <1>3 DEF Rows
  <2> QED BY <2>1, <2>2, <2>3, <1>1, <1>2, <1>12 DEF AcceptedHasDeal
\* the decisions of the others
<1>19. /\ \A n : n # k => Called(n)' = Called(n)
       /\ \A n : Called(n) \subseteq Called(n)'
       /\ \A n : t.company # 0 => Called(n)' = Called(n)
       /\ \A n : n = k => Called(n)' = Called(n) \cup {c}
  <2>1. \A e \in 1 .. companies : e \in 1 .. companies'
    BY <1>3, <1>5
  <2>2. ASSUME NEW n PROVE Called(n) \subseteq Called(n)'
    BY <2>1, <1>7 DEF Called
  <2>3. ASSUME NEW n PROVE Called(n)' \subseteq IF n = k /\ t.company = 0 THEN Called(n) \cup {c} ELSE Called(n)
    BY <1>7 DEF Called
  <2>4. ASSUME NEW n, n = k PROVE c \in Called(n)'
    BY <2>4, <1>5, <1>7 DEF Called
  <2>5. ASSUME NEW n, n = k, t.company # 0 PROVE c \in Called(n)
    BY <2>5, <1>1 DEF Called
  <2>6. ASSUME NEW n, n # k \/ t.company # 0 PROVE Called(n)' = Called(n)
    BY <2>2, <2>3, <2>6
  <2>7. ASSUME NEW n, n = k PROVE Called(n)' = Called(n) \cup {c}
    BY <2>2, <2>3, <2>4, <2>5, <2>7
  <2> QED BY <2>2, <2>6, <2>7
<1>20. ASSUME NEW o \in Users, tx'[o].at # "idle"
       PROVE  o # u /\ tx'[o] = tx[o] /\ Subject(o)' = Subject(o) /\ Subject(o) \in Names
  <2>1. o # u /\ tx'[o] = tx[o]
    BY <1>13, <1>20 DEF Idle
  <2>2. Subject(o)' = Subject(o)
    BY <1>2, <2>1 DEF Subject
  <2> QED BY <1>20, <2>1, <2>2, <1>3 DEF Deciding, DecisionTypes, DecisionsExclusive, Subject, Rows
<1>21. DecisionsExclusive'
  <2>1. ASSUME NEW o \in Users \ {u}, tx[o].at # "idle", Subject(o) \in Names
        PROVE  /\ verdict'[tx[o].row] = "proposed"
               /\ tx[o].claims => onFile'[Subject(o)] = 0
               /\ tx[o].company # 0 => tx[o].company \in Called(Subject(o))
               /\ tx[o].deal # 0 => tx[o].deal \in 1 .. deals' /\ company'[tx[o].deal] = tx[o].company
    <3>1. tx[o].row \in Rows /\ tx[o].row # t.row /\ verdict[tx[o].row] = "proposed"
      BY <2>1, <1>1, <1>3 DEF Deciding, DecisionsExclusive, Rows
    <3>2. tx[o].claims => onFile[Subject(o)] = 0 /\ (t.claims => Subject(o) # k)
      BY <2>1, <1>1 DEF Deciding, DecisionsExclusive
    <3>3. tx[o].deal # 0 => tx[o].deal \in 1 .. deals /\ company[tx[o].deal] = tx[o].company
      BY <2>1 DEF Deciding, DecisionsExclusive
    <3> QED BY <2>1, <3>1, <3>2, <3>3, <1>3, <1>8, <1>10, <1>12, <1>14 DEF Deciding, DecisionsExclusive
  <2> QED BY <2>1, <1>2, <1>19, <1>20 DEF Deciding, DecisionsExclusive
<1>22. DecidingAlone'
  <2>1. ASSUME NEW n \in Names \ raced, NEW a \in Called(n)', NEW b \in Called(n)'
        PROVE  a = b
    <3>1. n = k /\ t.company = 0 => Called(k) = {}
      BY <1>1 DEF Deciding, DecidingAlone
    <3> QED BY <3>1, <1>19, <2>1 DEF Deciding, DecidingAlone
  <2>2. ASSUME NEW o \in Users, tx'[o].at # "idle", Subject(o) \notin raced
        PROVE  Subject(o) # k
    BY <2>2, <1>1, <1>20 DEF Deciding, DecidingAlone
  <2>3. \A o \in Users : \A n : n # k => InSight(o, n)' \subseteq InSight(o, n)
    BY <1>2, <1>7, <1>10 DEF InSight, Visible, Deciding, RowsSound
  <2>4. ASSUME NEW o \in Users, tx'[o].at # "idle", Subject(o) \notin raced
        PROVE  /\ \A p \in Users \ {o} : tx'[p].at # "idle" => Subject(p)' # Subject(o)
               /\ tx'[o].at = "adding" \/ (tx'[o].at = "saving" /\ tx'[o].company = 0) => Called(Subject(o)) = {}
               /\ tx'[o].at = "saving" /\ tx'[o].deal = 0 => InSight(o, Subject(o)) = {}
    BY <2>4, <1>20 DEF Deciding, DecidingAlone
  <2>5. ASSUME NEW o \in Users, tx'[o].at # "idle", Subject(o) \notin raced
        PROVE  /\ tx'[o].at = "adding" \/ (tx'[o].at = "saving" /\ tx'[o].company = 0) => Called(Subject(o))' = {}
               /\ tx'[o].at = "saving" /\ tx'[o].deal = 0 => InSight(o, Subject(o))' = {}
    <3>1. PICK n \in Names : n = Subject(o) /\ n = Subject(o)' /\ n # k
      BY <2>2, <2>5, <1>20
    <3>2. Called(n)' = Called(n) /\ InSight(o, n)' \subseteq InSight(o, n)
      BY <3>1, <1>19, <2>3
    <3> QED BY <3>1, <3>2, <2>4, <2>5 DEF Called, InSight
  <2> QED BY <2>1, <2>4, <2>5, <1>2, <1>20 DEF DecidingAlone
<1> QED BY <1>15, <1>16, <1>17, <1>18, <1>21, <1>22 DEF Deciding

\* Each step keeps the invariant of the decisions.
LEMMA DecidingStep == Deciding /\ Feed /\ [Next]_vars => Deciding'
<1> SUFFICES ASSUME Deciding, Feed, [Next]_vars PROVE Deciding'
  OBVIOUS
<1>1. ASSUME NEW h \in Handlers, HandlerNext(h) PROVE Deciding'
  <2>1. CASE Store(h)
    <3>1. job[h].of \in Interactions
      BY DEF Feed
    <3> QED BY <2>1, <3>1, StoreKeepsDeciding
  <2>2. ASSUME NEW i \in Interactions, Read(h, i) PROVE Deciding'
    BY <2>2, OthersKeepDeciding DEF Read
  <2>3. CASE GiveUp(h) \/ Acknowledge(h) \/ Crash(h)
    BY <2>3, OthersKeepDeciding DEF GiveUp, Acknowledge, Crash
  <2> QED BY <1>1, <2>1, <2>2, <2>3 DEF HandlerNext
<1>2. ASSUME NEW x \in Rows, NEW to \in {"accepted", "rejected", "done"}, Decide(x, to)
      PROVE  Deciding'
  BY <1>2, DecideKeepsDeciding
<1>3. ASSUME NEW u \in Users, DecisionNext(u) PROVE Deciding'
  BY <1>3, AcceptMentionKeepsDeciding, FindCompanyKeepsDeciding, AddCompanyKeepsDeciding,
     FindDealKeepsDeciding, AcceptCommitKeepsDeciding, AbandonKeepsDeciding DEF DecisionNext
<1>4. ASSUME NEW u \in Users, DealNext(u) PROVE Deciding'
  BY <1>4, CreateDealKeepsDeciding, UpdateDealKeepsDeciding, JoinTeamKeepsDeciding DEF DealNext
<1>5. CASE UNCHANGED vars
  BY <1>5, OthersKeepDeciding DEF vars
<1> QED BY <1>1, <1>2, <1>3, <1>4, <1>5 DEF Next

\* Types, what the rows, companies and deals say of each other, who may be
\* deciding on what, and why proposals stem from one transaction hold together
\* in every reachable state.
THEOREM InductiveInvariant == Spec => []IInv
<1> DEFINE Acked == acked \subseteq Interactions
<1>1. Init => Acked
  BY DEF Init
<1>2. Acked /\ Feed /\ [Next]_vars => Acked'
  <2> SUFFICES ASSUME Acked, Feed, [Next]_vars PROVE Acked'
    OBVIOUS
  <2>1. ASSUME NEW h \in Handlers, HandlerNext(h) PROVE Acked'
    BY <2>1 DEF HandlerNext, Read, Store, GiveUp, Acknowledge, Crash, Feed
  <2>2. CASE UNCHANGED feedVars
    BY <2>2 DEF feedVars
  <2>3. ASSUME NEW x \in Rows, NEW to \in {"accepted", "rejected", "done"}, Decide(x, to)
        PROVE  UNCHANGED feedVars
    BY <2>3 DEF Decide
  <2>4. ASSUME NEW u \in Users, DecisionNext(u) PROVE UNCHANGED feedVars
    BY <2>4 DEF DecisionNext, AcceptMention, FindCompany, AddCompany, FindDeal, AcceptCommit, Abandon
  <2>5. ASSUME NEW u \in Users, DealNext(u) PROVE UNCHANGED feedVars
    BY <2>5 DEF DealNext, CreateDeal, UpdateDeal, JoinTeam, Edit
  <2> QED BY <2>1, <2>2, <2>3, <2>4, <2>5 DEF Next, vars
<1>3. Acked /\ Feed /\ Deciding => IInv
  BY DEF Feed, Deciding, DecisionTypes, IInv, TypeOK
<1> HIDE DEF Acked
<1> QED BY <1>1, <1>2, <1>3, FeedInit, FeedStep, DecidingInit, DecidingStep, PTL DEF Spec

\* An accepted deal mention is in the pipeline, in every reachable state, between
\* any statements of other decisions and whatever the deal routes do: its company
\* has a deal, and its interaction is filed under one unless the row policy hides
\* the interaction from the user who accepted.
THEOREM AcceptedInPipeline == Spec => []AcceptedHasDeal
<1>1. IInv => AcceptedHasDeal
  BY DEF IInv
<1> QED BY <1>1, InductiveInvariant, PTL

\* decide_extraction makes one company of a name, as long as no two decisions on
\* it overlap, with or without a domain.
THEOREM OneCompany == Spec => []OneCompanyPerName
<1>1. IInv => OneCompanyPerName
  <2> SUFFICES ASSUME IInv, NEW k \in Names \ raced PROVE Cardinality(Called(k)) <= 1
    BY DEF OneCompanyPerName
  <2>1. \A c, d \in Called(k) : c = d
    BY DEF IInv, DecidingAlone
  <2>2. CASE Called(k) = {}
    BY <2>2, FS_EmptySet
  <2>3. ASSUME NEW c \in Called(k) PROVE Cardinality(Called(k)) <= 1
    <3>1. Called(k) = {c}
      BY <2>1
    <3>2. Cardinality({c}) = 1
      BY FS_Singleton
    <3> QED BY <3>1, <3>2
  <2> QED BY <2>2, <2>3
<1> QED BY <1>1, InductiveInvariant, PTL

\* A decision stands: no step takes back or overwrites a decision, or files an
\* interaction under another deal.
THEOREM DecisionsAreFinal == Spec => DecisionsStand
<1> DEFINE Stand ==
      /\ \A x \in 1 .. proposals : verdict'[x] = verdict[x] \/ <<verdict[x], verdict'[x]>> \in Moves
      /\ \A i \in Interactions : link[i] # 0 => link'[i] = link[i]
<1>1. ASSUME IInv, [Next]_vars PROVE Stand
  <2> USE <1>1, Bounds
  <2>1. /\ proposals \in Nat /\ proposals <= MaxProposals /\ \A x \in 1 .. proposals : x \in Rows
        /\ verdict \in [Rows -> {"none", "proposed", "accepted", "rejected", "done"}]
        /\ link \in [Interactions -> 0 .. MaxDeals] /\ source \in [Rows -> Interactions]
    BY DEF IInv, TypeOK, Rows
  <2>2. ASSUME NEW h \in Handlers, Store(h) PROVE Stand
    <3>1. /\ link' = link
          /\ \E n \in 0 .. MaxProposals - proposals :
               verdict' = [x \in Rows |-> IF x \in proposals + 1 .. proposals + n THEN "proposed" ELSE verdict[x]]
      BY <2>2 DEF Store, fileVars
    <3> QED BY <3>1, <2>1
  <2>3. ASSUME NEW x \in Rows, NEW to \in {"accepted", "rejected", "done"}, Decide(x, to) PROVE Stand
    BY <2>3, <2>1 DEF Decide, fileVars
  <2>4. ASSUME NEW u \in Users, AcceptCommit(u) PROVE Stand
    <3>1. tx[u].row \in Rows /\ verdict[tx[u].row] = "proposed"
      BY <2>4, <2>1 DEF IInv, DecisionsExclusive, AcceptCommit
    <3>2. /\ verdict' = [verdict EXCEPT ![tx[u].row] = "accepted"]
          /\ \/ link' = link
             \/ /\ link[source[tx[u].row]] = 0
                /\ \E d : link' = [link EXCEPT ![source[tx[u].row]] = d]
      BY <2>4 DEF AcceptCommit
    <3>3. \A i \in Interactions : link[i] # 0 => link'[i] = link[i]
      BY <3>1, <3>2, <2>1
    <3>4. <<"proposed", "accepted">> \in Moves
      BY DEF Moves
    <3> QED BY <3>1, <3>2, <3>3, <3>4, <2>1
  <2>5. CASE UNCHANGED <<verdict, link>>
    BY <2>5
  <2>6. ASSUME NEW h \in Handlers, HandlerNext(h), ~ Store(h) PROVE UNCHANGED <<verdict, link>>
    BY <2>6 DEF HandlerNext, fileVars, Read, GiveUp, Acknowledge, Crash
  <2>7. ASSUME NEW u \in Users, DecisionNext(u), ~ AcceptCommit(u) PROVE UNCHANGED <<verdict, link>>
    BY <2>7 DEF DecisionNext, fileVars, AcceptMention, FindCompany, AddCompany, FindDeal, Abandon
  <2>8. ASSUME NEW u \in Users, DealNext(u) PROVE UNCHANGED <<verdict, link>>
    BY <2>8 DEF DealNext, fileVars, CreateDeal, UpdateDeal, JoinTeam, Edit
  <2>9. CASE UNCHANGED vars
    BY <2>9, <2>5 DEF vars, fileVars
  <2> QED BY <2>2, <2>3, <2>4, <2>5, <2>6, <2>7, <2>8, <2>9 DEF Next
<1>2. IInv /\ [Next]_vars => [Stand]_vars
  BY <1>1
<1> QED BY <1>2, InductiveInvariant, PTL DEF Spec, DecisionsStand

\* A decision that nothing met opens no deal for a name next to one that is open
\* and visible to the user.
THEOREM NoDealTwice == Spec => NoSecondDeal
<1> DEFINE NoSecond ==
      \A u \in Users :
        /\ tx[u].at = "saving" /\ tx'[u].at = "idle" /\ deals' > deals
        /\ Subject(u) \notin raced
        => \A d \in 1 .. deals :
             named[company[d]] = Subject(u) /\ stage[d] # "closed" => ~ Visible(u, d)
<1>1. ASSUME IInv, [Next]_vars, NEW u \in Users, tx[u].at = "saving", tx'[u].at = "idle", deals' > deals
      PROVE  tx[u].deal = 0
  <2> USE <1>1
  <2>1. ASSUME deals' = deals PROVE FALSE
    BY <2>1 DEF IInv, TypeOK
  <2>2. ASSUME tx' = tx PROVE FALSE
    BY <2>2
  <2>3. ASSUME NEW o \in Users, AcceptCommit(o) PROVE tx[u].deal = 0
    <3>1. o = u
      BY <2>3 DEF AcceptCommit, IInv, TypeOK
    <3> QED BY <2>1, <2>3, <3>1 DEF AcceptCommit
  <2>4. ASSUME NEW o \in Users, DecisionNext(o), ~ AcceptCommit(o) PROVE FALSE
    BY <2>1, <2>4 DEF DecisionNext, AcceptMention, FindCompany, AddCompany, FindDeal, Abandon, dealVars
  <2>5. ASSUME NEW o \in Users, DealNext(o) PROVE FALSE
    BY <2>2, <2>5 DEF DealNext, CreateDeal, UpdateDeal, JoinTeam, Edit
  <2>6. ASSUME NEW h \in Handlers, HandlerNext(h) PROVE FALSE
    BY <2>2, <2>6 DEF HandlerNext, Read, Store, GiveUp, Acknowledge, Crash
  <2>7. ASSUME NEW x \in Rows, NEW to \in {"accepted", "rejected", "done"}, Decide(x, to) PROVE FALSE
    BY <2>2, <2>7 DEF Decide
  <2>8. CASE UNCHANGED vars
    BY <2>2, <2>8 DEF vars
  <2> QED BY <2>3, <2>4, <2>5, <2>6, <2>7, <2>8 DEF Next
<1>2. ASSUME IInv, [Next]_vars PROVE NoSecond
  BY <1>1, <1>2 DEF IInv, DecidingAlone, InSight
<1>3. IInv /\ [Next]_vars => [NoSecond]_vars
  BY <1>2
<1> QED BY <1>3, InductiveInvariant, PTL DEF Spec, NoSecondDeal
=============================================================================
