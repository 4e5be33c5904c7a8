----------------------------- MODULE Extractions -----------------------------
(***************************************************************************)
(* Proposals of the AI extraction service and what people make of them:    *)
(* the consumer of interactions.resolved (firstlook_ai.consumer and        *)
(* extract_interaction), decide_extraction of migration 0004, and the deal *)
(* routes of the API that run beside it.                                   *)
(*                                                                         *)
(* A handler reads the interaction, asks the model, which may take minutes *)
(* (longer than Kafka waits for a consumer), and stores what it proposed   *)
(* in one transaction.  A decision on a deal mention runs READ COMMITTED,  *)
(* statement by statement; its writes are kept in tx[u] until it commits.  *)
(*                                                                         *)
(* Proposals, companies and deals are numbered as they commit.  A deal     *)
(* mention is about the company it names; other kinds (introductions, next *)
(* steps) only carry their status.                                         *)
(***************************************************************************)
EXTENDS Integers, FiniteSets

CONSTANTS
  Interactions,
  Names,       \* companies that deal mentions name
  WithDomain,  \* those whose mentions carry a domain
  Other,       \* what a proposal is about that is no deal mention
  Handlers,    \* consumers of the ai-extraction group
  Users,       \* each with at most one decision in progress
  MaxProposals, MaxDeals, MaxEdits, MaxFaults   \* bounds

ASSUME NamesAssumption  == WithDomain \subseteq Names /\ Other \notin Names
ASSUME BoundsAssumption == {MaxProposals, MaxDeals, MaxEdits, MaxFaults} \subseteq Nat

VARIABLES
  \* the interactions table, and the offsets of the consumer group
  extracted,   \* interactions marked with the prompt version
  readers,     \* readers[i]: who the row policy shows interaction i
  link,        \* link[i]: interactions.deal_id, 0 for NULL
  acked,       \* interactions whose event was committed as handled
  job,         \* job[h]: the interaction handler h has, and where it is
  \* the extractions table
  proposals,   \* rows: 1 .. proposals
  source,      \* source[x]: the interaction of row x
  about,       \* about[x]: the company a deal mention names, or Other
  verdict,     \* verdict[x]: extractions.status, "none" without a row
  \* companies and deals
  companies,   \* rows: 1 .. companies
  named,       \* named[c]: companies.name
  onFile,      \* onFile[k]: the company of k's domain in identifiers, 0 for none
  deals,       \* rows: 1 .. deals
  company,     \* company[d]: deals.company_id
  stage,       \* stage[d]: "sourced", "active" or "closed"
  team,        \* team[d]: deal_team_members
  restricted,  \* deals that only their team sees
  tx,          \* tx[u]: the decision user u has in progress
  \* history and bounds
  stores,      \* stores[i]: transactions that stored proposals of i
  overlapped,  \* interactions that two handlers had at once
  raced,       \* names with a decision that met another one or an edit
  blind,       \* mentions accepted by a user who may not see the interaction
  edits, faults

feedVars  == <<extracted, acked, job, stores, overlapped>>
rowVars   == <<proposals, source, about>>
firmVars  == <<companies, named, onFile>>
dealVars  == <<deals, company, stage, team, restricted>>
fileVars  == <<readers, link, blind>>
vars == <<feedVars, fileVars, rowVars, verdict, firmVars, dealVars, tx, raced, edits, faults>>

Rows  == 1 .. MaxProposals
Deals == 1 .. MaxDeals
Firms == 1 .. (1 + MaxProposals)   \* one that is known, one per mention accepted

Idle   == [at |-> "idle", row |-> 0, company |-> 0, deal |-> 0, claims |-> FALSE]
Begun(x) == [at |-> "company", row |-> x, company |-> 0, deal |-> 0, claims |-> FALSE]
Places == {"idle", "company", "adding", "deal", "saving"}

Init ==
  /\ extracted = {} /\ acked = {} /\ overlapped = {} /\ raced = {}
  \* a private interaction is its owner's, who may be no user that decides here
  /\ readers \in [Interactions -> {Users, {}} \cup {{u} : u \in Users}]
  /\ link   = [i \in Interactions |-> 0]
  /\ blind  = {}
  /\ stores = [i \in Interactions |-> 0]
  /\ \E i \in Interactions : job = [h \in Handlers |-> [at |-> "idle", of |-> i]]
  /\ proposals = 0
  /\ \E i \in Interactions : source = [x \in Rows |-> i]
  /\ about   = [x \in Rows |-> Other]
  /\ verdict = [x \in Rows |-> "none"]
  \* at most one company is known, by its domain or only by name
  /\ companies \in {0, 1}
  /\ \E k \in Names :
       /\ named = [c \in Firms |-> k]
       /\ onFile \in {[n \in Names |-> 0],
                      [n \in Names |-> IF n = k /\ k \in WithDomain THEN companies ELSE 0]}
  /\ deals = 0
  /\ company = [d \in Deals |-> 0]
  /\ stage   = [d \in Deals |-> "closed"]
  /\ team    = [d \in Deals |-> {}]
  /\ restricted = {}
  /\ tx = [u \in Users |-> Idle]
  /\ edits = 0 /\ faults = 0

-----------------------------------------------------------------------------
(* The consumer. *)

Has(h, i) == job[h].at # "idle" /\ job[h].of = i

\* An event is handled again when it was not committed; at the price of a fault
\* also while a handler that outlasted the poll interval still has it, or when
\* it is on the topic twice.
Delivered(i) ==
  IF i \notin acked /\ \A h \in Handlers : ~ Has(h, i)
    THEN UNCHANGED faults
    ELSE faults < MaxFaults /\ faults' = faults + 1

\* handle and the start of extract_interaction: an interaction marked with the
\* prompt version is skipped, which acknowledges it.
Read(h, i) ==
  /\ job[h].at = "idle"
  /\ Delivered(i)
  /\ overlapped' = IF \E o \in Handlers : Has(o, i) THEN overlapped \cup {i} ELSE overlapped
  /\ job' = [job EXCEPT ![h] = [at |-> IF i \in extracted THEN "stored" ELSE "calling", of |-> i]]
  /\ UNCHANGED <<extracted, acked, stores, fileVars, rowVars, verdict, firmVars, dealVars, tx, raced, edits>>

\* [variant: the interaction is not marked with the prompt version]
Store_Unmarked(h) ==
  /\ job[h].at = "calling"
  /\ stores' = [stores EXCEPT ![job[h].of] = @ + 1]
  /\ proposals < MaxProposals
  /\ proposals' = proposals + 1
  /\ source'  = [source EXCEPT ![proposals + 1] = job[h].of]
  /\ verdict' = [verdict EXCEPT ![proposals + 1] = "proposed"]
  /\ job' = [job EXCEPT ![h].at = "stored"]
  /\ UNCHANGED <<extracted, acked, overlapped, fileVars, about, firmVars, dealVars, tx, raced, edits, faults>>

\* The model answered: the proposals that validate kept (none, or some) and
\* the mark on the interaction commit together.
Store(h) ==
  /\ job[h].at = "calling"
  /\ \E n \in 0 .. MaxProposals - proposals :
       LET new == proposals + 1 .. proposals + n IN
       /\ proposals' = proposals + n
       /\ stores' = IF n = 0 THEN stores ELSE [stores EXCEPT ![job[h].of] = @ + 1]
       /\ source' = [x \in Rows |-> IF x \in new THEN job[h].of ELSE source[x]]
       /\ \E what \in [new -> Names \cup {Other}] :
            about' = [x \in Rows |-> IF x \in new THEN what[x] ELSE about[x]]
       /\ verdict' = [x \in Rows |-> IF x \in new THEN "proposed" ELSE verdict[x]]
  /\ extracted' = extracted \cup {job[h].of}
  /\ job' = [job EXCEPT ![h].at = "stored"]
  /\ UNCHANGED <<acked, overlapped, fileVars, firmVars, dealVars, tx, raced, edits, faults>>

\* BudgetExceeded is swallowed and any other failure ends in the dead letters:
\* the event counts as handled either way, and nothing was extracted.
GiveUp(h) ==
  /\ job[h].at = "calling"
  /\ job' = [job EXCEPT ![h].at = "stored"]
  /\ UNCHANGED <<extracted, acked, stores, overlapped, fileVars, rowVars, verdict, firmVars, dealVars, tx,
                 raced, edits, faults>>

Acknowledge(h) ==
  /\ job[h].at = "stored"
  /\ acked' = acked \cup {job[h].of}
  /\ job' = [job EXCEPT ![h].at = "idle"]
  /\ UNCHANGED <<extracted, stores, overlapped, fileVars, rowVars, verdict, firmVars, dealVars, tx, raced,
                 edits, faults>>

\* The process dies; an open transaction rolls back.
Crash(h) ==
  /\ job[h].at # "idle" /\ faults < MaxFaults
  /\ faults' = faults + 1
  /\ job' = [job EXCEPT ![h].at = "idle"]
  /\ UNCHANGED <<extracted, acked, stores, overlapped, fileVars, rowVars, verdict, firmVars, dealVars, tx,
                 raced, edits>>

-----------------------------------------------------------------------------
(* Decisions. *)

Subject(u) == about[tx[u].row]
Busy(k)    == \E u \in Users : tx[u].at # "idle" /\ Subject(u) = k
Locked(x)  == \E u \in Users : tx[u].at # "idle" /\ tx[u].row = x

\* History: something about k happens while a decision about k is in progress.
Touches(k) == raced' = IF Busy(k) THEN raced \cup {k} ELSE raced

\* What decide_extraction does when it writes the status and nothing else; it
\* looks at the kind only for 'accepted'.
Moves == {<<"proposed", "accepted">>, <<"proposed", "rejected">>, <<"accepted", "done">>}

\* [variant: the row is read without FOR UPDATE]
Decide_NoLock(x, to) ==
  /\ <<verdict[x], to>> \in Moves
  /\ to = "accepted" => about[x] = Other
  /\ verdict' = [verdict EXCEPT ![x] = to]
  /\ UNCHANGED <<feedVars, fileVars, rowVars, firmVars, dealVars, tx, raced, edits, faults>>

Decide(x, to) ==
  /\ ~ Locked(x)
  /\ <<verdict[x], to>> \in Moves
  /\ to = "accepted" => about[x] = Other
  /\ verdict' = [verdict EXCEPT ![x] = to]
  /\ UNCHANGED <<feedVars, fileVars, rowVars, firmVars, dealVars, tx, raced, edits, faults>>

\* [variant: the row is read without FOR UPDATE]
AcceptMention_NoLock(u, x) ==
  /\ tx[u].at = "idle"
  /\ verdict[x] = "proposed" /\ about[x] # Other
  /\ tx' = [tx EXCEPT ![u] = Begun(x)]
  /\ Touches(about[x])
  /\ UNCHANGED <<feedVars, fileVars, rowVars, verdict, firmVars, dealVars, edits, faults>>

\* A deal mention is accepted: lock the row, see that it is proposed.
AcceptMention(u, x) ==
  /\ tx[u].at = "idle"
  /\ ~ Locked(x)
  /\ verdict[x] = "proposed" /\ about[x] # Other
  /\ tx' = [tx EXCEPT ![u] = Begun(x)]
  /\ Touches(about[x])
  /\ UNCHANGED <<feedVars, fileVars, rowVars, verdict, firmVars, dealVars, edits, faults>>

Called(k) == {c \in 1 .. companies : named[c] = k}

\* [variant: a company is only looked up by its domain]
FindCompany_ByDomain(u) ==
  LET c == onFile[Subject(u)] IN
  /\ tx[u].at = "company"
  /\ tx' = [tx EXCEPT ![u].at = IF c = 0 THEN "adding" ELSE "deal", ![u].company = c]
  /\ UNCHANGED <<feedVars, fileVars, rowVars, verdict, firmVars, dealVars, raced, edits, faults>>

\* By domain if the mention has one and it is on file, else by name.
FindCompany(u) ==
  LET k == Subject(u)
      found == IF onFile[k] # 0 THEN {onFile[k]} ELSE Called(k)
  IN  /\ tx[u].at = "company"
      /\ \/ found = {} /\ tx' = [tx EXCEPT ![u].at = "adding"]
         \/ \E c \in found : tx' = [tx EXCEPT ![u].at = "deal", ![u].company = c]
      /\ UNCHANGED <<feedVars, fileVars, rowVars, verdict, firmVars, dealVars, raced, edits, faults>>

\* A new company, which has no deals.  The insert of its domain waits for an
\* uncommitted one and does nothing if there is one.
AddCompany(u) ==
  LET k == Subject(u) IN
  /\ tx[u].at = "adding"
  /\ \A o \in Users \ {u} : ~ (tx[o].claims /\ Subject(o) = k)
  /\ tx' = [tx EXCEPT ![u].at = "saving", ![u].claims = (k \in WithDomain /\ onFile[k] = 0)]
  /\ UNCHANGED <<feedVars, fileVars, rowVars, verdict, firmVars, dealVars, raced, edits, faults>>

\* Row-level security: a restricted deal is visible to its team.
Visible(u, d) == d \notin restricted \/ u \in team[d]

\* [variant: only deals still in stage 'sourced' are looked for]
FindDeal_Sourced(u) ==
  LET open == {d \in 1 .. deals : company[d] = tx[u].company /\ stage[d] = "sourced" /\ Visible(u, d)}
  IN  /\ tx[u].at = "deal"
      /\ \/ open = {} /\ tx' = [tx EXCEPT ![u].at = "saving"]
         \/ \E d \in open : tx' = [tx EXCEPT ![u].at = "saving", ![u].deal = d]
      /\ UNCHANGED <<feedVars, fileVars, rowVars, verdict, firmVars, dealVars, raced, edits, faults>>

\* [variant: open deals of all companies are looked for]
FindDeal_AnyCompany(u) ==
  LET open == {d \in 1 .. deals : stage[d] # "closed" /\ Visible(u, d)}
  IN  /\ tx[u].at = "deal"
      /\ \/ open = {} /\ tx' = [tx EXCEPT ![u].at = "saving"]
         \/ \E d \in open : tx' = [tx EXCEPT ![u].at = "saving", ![u].deal = d]
      /\ UNCHANGED <<feedVars, fileVars, rowVars, verdict, firmVars, dealVars, raced, edits, faults>>

\* Any deal of the company that is not closed and that the user may see.
FindDeal(u) ==
  LET open == {d \in 1 .. deals : company[d] = tx[u].company /\ stage[d] # "closed" /\ Visible(u, d)}
  IN  /\ tx[u].at = "deal"
      /\ \/ open = {} /\ tx' = [tx EXCEPT ![u].at = "saving"]
         \/ \E d \in open : tx' = [tx EXCEPT ![u].at = "saving", ![u].deal = d]
      /\ UNCHANGED <<feedVars, fileVars, rowVars, verdict, firmVars, dealVars, raced, edits, faults>>

\* The rest of the transaction: the deal unless one was found, the filing of the
\* interaction, the status.  The row policies of interactions apply to the
\* filing: one the user may not see is silently left as it is, and filing under
\* a deal that has become invisible is an error (the transaction fails: Abandon).
AcceptCommit(u) ==
  LET t == tx[u]
      i == source[t.row]
      c == IF t.company = 0 THEN companies + 1 ELSE t.company
      d == IF t.deal = 0 THEN deals + 1 ELSE t.deal
      files == u \in readers[i] /\ link[i] = 0
  IN  /\ t.at = "saving"
      /\ d <= MaxDeals
      /\ files /\ t.deal # 0 => Visible(u, d)
      /\ IF t.company = 0
           THEN /\ companies' = c
                /\ named' = [named EXCEPT ![c] = about[t.row]]
                /\ onFile' = IF t.claims THEN [onFile EXCEPT ![about[t.row]] = c] ELSE onFile
           ELSE UNCHANGED firmVars
      /\ IF t.deal = 0
           THEN /\ deals' = d
                /\ company' = [company EXCEPT ![d] = c]
                /\ stage' = [stage EXCEPT ![d] = "sourced"]
           ELSE UNCHANGED <<deals, company, stage>>
      /\ link' = IF files THEN [link EXCEPT ![i] = d] ELSE link
      /\ blind' = IF u \in readers[i] THEN blind ELSE blind \cup {t.row}
      /\ verdict' = [verdict EXCEPT ![t.row] = "accepted"]
      /\ tx' = [tx EXCEPT ![u] = Idle]
      /\ UNCHANGED <<feedVars, readers, rowVars, team, restricted, raced, edits, faults>>

\* A decision may fail before it commits.
Abandon(u) ==
  /\ tx[u].at # "idle"
  /\ tx' = [tx EXCEPT ![u] = Idle]
  /\ UNCHANGED <<feedVars, fileVars, rowVars, verdict, firmVars, dealVars, raced, edits, faults>>

-----------------------------------------------------------------------------
(* The deal routes: one transaction each. *)

Edit(k) ==
  /\ edits < MaxEdits
  /\ edits' = edits + 1
  /\ Touches(k)
  /\ UNCHANGED <<feedVars, fileVars, rowVars, verdict, firmVars, tx, faults>>

\* POST /deals for a known company, restricted or not.
CreateDeal(u, c) ==
  /\ deals < MaxDeals /\ c <= companies
  /\ deals' = deals + 1
  /\ company' = [company EXCEPT ![deals + 1] = c]
  /\ stage'   = [stage EXCEPT ![deals + 1] = "sourced"]
  /\ team'    = [team EXCEPT ![deals + 1] = {u}]
  /\ restricted' \in {restricted, restricted \cup {deals + 1}}
  /\ Edit(named[c])

\* PATCH /deals/:id, which sees visible deals only.
UpdateDeal(u, d) ==
  /\ d <= deals /\ Visible(u, d)
  /\ \E s \in {"sourced", "active", "closed"} : stage' = [stage EXCEPT ![d] = s]
  /\ restricted' \in {restricted \ {d}, restricted \cup {d}}
  /\ UNCHANGED <<deals, company, team>>
  /\ Edit(named[company[d]])

\* POST /deals/:id/team: user v joins.
JoinTeam(u, v, d) ==
  /\ d <= deals /\ Visible(u, d)
  /\ team' = [team EXCEPT ![d] = @ \cup {v}]
  /\ UNCHANGED <<deals, company, stage, restricted>>
  /\ Edit(named[company[d]])

-----------------------------------------------------------------------------
HandlerNext(h) ==
  \/ \E i \in Interactions : Read(h, i)
  \/ Store(h) \/ GiveUp(h) \/ Acknowledge(h) \/ Crash(h)

DecisionNext(u) ==
  \/ \E x \in Rows : AcceptMention(u, x)
  \/ FindCompany(u) \/ AddCompany(u) \/ FindDeal(u) \/ AcceptCommit(u) \/ Abandon(u)

DealNext(u) ==
  \/ \E c \in Firms : CreateDeal(u, c)
  \/ \E d \in Deals : UpdateDeal(u, d) \/ \E v \in Users : JoinTeam(u, v, d)

Next ==
  \/ \E h \in Handlers : HandlerNext(h)
  \/ \E x \in Rows, to \in {"accepted", "rejected", "done"} : Decide(x, to)
  \/ \E u \in Users : DecisionNext(u) \/ DealNext(u)

Spec == Init /\ [][Next]_vars

-----------------------------------------------------------------------------
(* Properties. *)

TypeOK ==
  /\ extracted \subseteq Interactions /\ acked \subseteq Interactions
  /\ readers \in [Interactions -> SUBSET Users]
  /\ link    \in [Interactions -> 0 .. MaxDeals]
  /\ job     \in [Handlers -> [at : {"idle", "calling", "stored"}, of : Interactions]]
  /\ proposals \in 0 .. MaxProposals
  /\ source  \in [Rows -> Interactions]
  /\ about   \in [Rows -> Names \cup {Other}]
  /\ verdict \in [Rows -> {"none", "proposed", "accepted", "rejected", "done"}]
  /\ companies \in {0} \cup Firms
  /\ named   \in [Firms -> Names]
  /\ onFile  \in [Names -> {0} \cup Firms]
  /\ deals   \in 0 .. MaxDeals
  /\ company \in [Deals -> {0} \cup Firms]
  /\ stage   \in [Deals -> {"sourced", "active", "closed"}]
  /\ team    \in [Deals -> SUBSET Users]
  /\ restricted \subseteq Deals
  /\ tx      \in [Users -> [at : Places, row : {0} \cup Rows, company : {0} \cup Firms,
                            deal : 0 .. MaxDeals, claims : BOOLEAN]]

\* "Idempotent": however often the event comes, the proposals of an interaction
\* stem from one transaction, unless two handlers had it at the same time.
ProposedOnce == \A i \in Interactions \ overlapped : stores[i] <= 1

\* A decision stands: a proposal is accepted or rejected once, only what was
\* accepted is done, and nobody's decision overwrites another's; and an
\* interaction filed under a deal stays there.
DecisionsStand ==
  [][ /\ \A x \in 1 .. proposals :
           verdict'[x] = verdict[x] \/ <<verdict[x], verdict'[x]>> \in Moves
      /\ \A i \in Interactions : link[i] # 0 => link'[i] = link[i] ]_vars

\* An accepted deal mention is in the pipeline: its company has a deal, and its
\* interaction is filed under one, unless the user who accepted could not see the
\* interaction (a private one of somebody else, which 0004 then leaves unfiled).
AcceptedHasDeal ==
  \A x \in 1 .. proposals : verdict[x] \in {"accepted", "done"} /\ about[x] # Other =>
    /\ \E d \in 1 .. deals : named[company[d]] = about[x]
    /\ link[source[x]] \in 1 .. deals \/ x \in blind

\* Accepting mentions one after the other makes one company of a name.
OneCompanyPerName == \A k \in Names \ raced : Cardinality(Called(k)) <= 1

\* Nor does it open a second deal next to one that is open and that the
\* user can see.
NoSecondDeal ==
  [][ \A u \in Users :
        /\ tx[u].at = "saving" /\ tx'[u].at = "idle" /\ deals' > deals
        /\ Subject(u) \notin raced
        => \A d \in 1 .. deals :
             named[company[d]] = Subject(u) /\ stage[d] # "closed" => ~ Visible(u, d) ]_vars

-----------------------------------------------------------------------------
(* The strengthening that makes the invariants inductive. *)

\* What has no row has no status, and rows refer to rows: a company on file under a
\* domain bears its name, a deal has a company, an interaction is filed under a deal
\* that exists.
RowsSound ==
  /\ \A x \in Rows : x > proposals => verdict[x] = "none"
  /\ \A k \in Names : onFile[k] # 0 => onFile[k] \in 1 .. companies /\ named[onFile[k]] = k
  /\ \A d \in 1 .. deals : company[d] \in 1 .. companies
  /\ \A i \in Interactions : link[i] <= deals

\* Companies come from decisions: one may have been known, and each other one was
\* made for a proposal that is decided.
Decided == {x \in 1 .. proposals : verdict[x] # "proposed"}
CompaniesCounted == companies <= 1 + Cardinality(Decided)

\* Who is deciding holds a row that is proposed, nobody else does, and a new domain
\* has one claimant; what the transaction has found is about its own name.
DecisionsExclusive ==
  \A u \in Users : tx[u].at # "idle" =>
    /\ tx[u].row \in 1 .. proposals
    /\ verdict[tx[u].row] = "proposed" /\ Subject(u) # Other
    /\ tx[u].claims => onFile[Subject(u)] = 0
    /\ tx[u].at \in {"company", "adding"} => tx[u].company = 0 /\ tx[u].deal = 0
    /\ tx[u].at = "deal" => tx[u].company # 0 /\ tx[u].deal = 0
    /\ tx[u].company # 0 => tx[u].company \in Called(Subject(u))
    /\ tx[u].deal # 0 =>
         tx[u].company # 0 /\ tx[u].deal \in 1 .. deals /\ company[tx[u].deal] = tx[u].company
    /\ \A o \in Users \ {u} : tx[o].at # "idle" =>
         /\ tx[o].row # tx[u].row
         /\ tx[u].claims /\ tx[o].claims => Subject(o) # Subject(u)

\* The open deals about a name that a user sees.
InSight(u, k) == {d \in 1 .. deals : named[company[d]] = k /\ stage[d] # "closed" /\ Visible(u, d)}

\* Of a name that nothing raced for there is one company at most and one decision in
\* progress, which still sees what it saw: no company of the name when it adds
\* one, no open deal when it opens one.
DecidingAlone ==
  /\ \A k \in Names \ raced : \A c, d \in Called(k) : c = d
  /\ \A u \in Users : tx[u].at # "idle" /\ Subject(u) \notin raced =>
       /\ \A o \in Users \ {u} : tx[o].at # "idle" => Subject(o) # Subject(u)
       /\ tx[u].at = "adding" \/ (tx[u].at = "saving" /\ tx[u].company = 0) => Called(Subject(u)) = {}
       /\ tx[u].at = "saving" /\ tx[u].deal = 0 => InSight(u, Subject(u)) = {}

\* Why proposals stem from one transaction: who has asked the model without
\* company found the interaction unmarked, and only its own commit marks it.
FeedSound ==
  /\ stores \in [Interactions -> Nat]
  /\ \A i \in Interactions \ overlapped : stores[i] <= (IF i \in extracted THEN 1 ELSE 0)
  /\ \A h \in Handlers :
       job[h].at = "calling" /\ job[h].of \in extracted => job[h].of \in overlapped
  /\ \A h, o \in Handlers :
       h # o /\ job[h].at # "idle" /\ Has(o, job[h].of) => job[h].of \in overlapped

IInv ==
  /\ TypeOK
  /\ RowsSound
  /\ CompaniesCounted
  /\ DecisionsExclusive
  /\ DecidingAlone
  /\ AcceptedHasDeal
  /\ FeedSound
=============================================================================
